---- MODULE Spec2Model ----
(***************************************************************************)
(* Model of the job-posting scraper (job_scraper.py: class JobScraper) and *)
(* of the resume tool built around it (app.py).  Text is a sequence of     *)
(* one-character strings, so that the normalizer, the regular expressions  *)
(* and the substring tests act on characters.                              *)
(***************************************************************************)
EXTENDS Integers, Sequences, FiniteSets, TLC

VARIABLES
    fn_input,      \* argument of the pure function under check
    fn_output,     \* its return value, None before the call
    fn_pc,         \* "ready" before the call, "done" after it
    pc,            \* position of the program using the JobScraper
    use_selenium,  \* JobScraper.use_selenium
    driver,        \* JobScraper.driver: "none", "live" or "quit"
    driver_init,   \* how construction went: "not_requested", "ok", "failed"
    call,          \* entry point running: "none", "one" (scrape_job), "many"
    urls,          \* the argument: the list of URLs (one URL for scrape_job)
    idx,           \* enumerate()'s position in urls
    jobs,          \* the local list of scrape_multiple_jobs
    cur_soup,      \* scrape_job's local soup: the fetched page or NoSoup
    site_type,     \* scrape_job's local
    cur_job,       \* scrape_job's local job, then its return value (NoJob for None)
    result,        \* what the entry point returned, <<>> before it returns
    outcomes,      \* history: scrape_job's return value for each URL so far
    trace,         \* history: the stages run, in order
    widgets,       \* the resume tool: what Streamlit keeps of its widgets between runs
    script_run     \* the resume tool: the last run of the script app.py

fn_vars == <<fn_input, fn_output, fn_pc>>

scraper_vars ==
    <<pc, use_selenium, driver, driver_init, call, urls, idx, jobs, cur_soup, site_type,
      cur_job, result, outcomes, trace>>

app_vars == <<widgets, script_run>>

vars == <<fn_vars, scraper_vars, app_vars>>

\* The JobScraper's state in the specifications that only call a pure function.
ScraperUnused ==
    /\ pc = "unused"
    /\ use_selenium = FALSE
    /\ driver = "none"
    /\ driver_init = "not_requested"
    /\ call = "none"
    /\ urls = <<>>
    /\ idx = 0
    /\ jobs = <<>>
    /\ cur_soup = [none |-> TRUE]
    /\ site_type = ""
    /\ cur_job = [none |-> TRUE]
    /\ result = <<>>
    /\ outcomes = <<>>
    /\ trace = <<>>

\* The resume tool's state in the specifications of the scraper.
AppUnused ==
    /\ widgets = [none |-> TRUE]
    /\ script_run = [none |-> TRUE]

(***************************************************************************)
(* Text helpers.                                                           *)
(***************************************************************************)

\* Python's None, kept apart from every text (its only element is no character).
None == <<"None">>

\* The characters matched by \s and removed by str.strip().
WS == {" ", "\t", "\n"}

Min(S) == CHOOSE x \in S : \A y \in S : x <= y

Max(S) == CHOOSE x \in S : \A y \in S : x >= y

\* s[k..] starts with lit.
StartsAt(s, k, lit) ==
    /\ k >= 1
    /\ k + Len(lit) - 1 <= Len(s)
    /\ \A j \in 1..Len(lit) : s[k + j - 1] = lit[j]

\* Python's  sub in s.
Contains(s, sub) == \E k \in 1..(Len(s) + 1) : StartsAt(s, k, sub)

\* str.strip(): leading and trailing whitespace removed.
strip(s) ==
    LET body == {k \in 1..Len(s) : s[k] \notin WS}
    IN  IF body = {} THEN <<>> ELSE SubSeq(s, Min(body), Max(body))

\* re.sub(r'\s+', ' ', s): every maximal run of whitespace becomes one space.
\* The characters kept are the non-whitespace ones and the first of each run.
sub_ws(s) ==
    LET keep == {k \in 1..Len(s) : s[k] \notin WS \/ k = 1 \/ s[k - 1] \notin WS}
        nth(n) == CHOOSE k \in keep : Cardinality({j \in keep : j <= k}) = n
    IN  [n \in 1..Cardinality(keep) |-> IF s[nth(n)] \in WS THEN " " ELSE s[nth(n)]]
            \o <<>>

\* str.replace(old, new): leftmost non-overlapping occurrences, one pass; from
\* position k on, the text up to the next occurrence is copied.
RECURSIVE replace_from(_, _, _, _)
replace_from(s, k, old, new) ==
    LET starts == {j \in k..Len(s) : StartsAt(s, j, old)}
    IN  IF starts = {} THEN SubSeq(s, k, Len(s))
        ELSE SubSeq(s, k, Min(starts) - 1) \o new
                 \o replace_from(s, Min(starts) + Len(old), old, new)

replace(s, old, new) == replace_from(s, 1, old, new)

(***************************************************************************)
(* Text Normalizer: JobScraper.clean_text.                                 *)
(***************************************************************************)

clean_text(text) ==
    IF text = None \/ text = <<>> THEN <<>>
    ELSE LET t1 == sub_ws(strip(text))
             t2 == replace(replace(t1, <<"&","n","b","s","p",";">>, <<" ">>), <<"&","a","m","p",";">>, <<"&">>)
             t3 == replace(replace(t2, <<"&","l","t",";">>, <<"<">>), <<"&","g","t",";">>, <<">">>)
         IN  t3

(***************************************************************************)
(* Inputs of the normalizer: concatenations of at most MaxCleanPieces     *)
(* pieces, the pieces being whitespace, plain characters, the four         *)
(* entities and the fragments that decoding can join into an entity.       *)
(***************************************************************************)

MaxCleanPieces == 3

CleanPieces ==
    { <<" ">>, <<"\t">>, <<"\n">>, <<"a">>, <<"&">>,
      <<"&","n","b","s","p",";">>, <<"&","a","m","p",";">>, <<"&","l","t",";">>, <<"&","g","t",";">>,
      <<"n","b","s","p",";">>, <<"a","m","p",";">>, <<"l","t",";">> }

RECURSIVE Concats(_, _)
Concats(P, n) ==
    IF n = 0 THEN {<<>>}
    ELSE LET shorter == Concats(P, n - 1)
         IN  shorter \cup {s \o p : s \in shorter, p \in P}

CleanInputs == Concats(CleanPieces, MaxCleanPieces) \cup {None}

InitCleanText ==
    /\ fn_input \in CleanInputs
    /\ fn_output = None
    /\ fn_pc = "ready"
    /\ ScraperUnused
    /\ AppUnused

CallCleanText ==
    /\ fn_pc = "ready"
    /\ fn_output' = clean_text(fn_input)
    /\ fn_pc' = "done"
    /\ UNCHANGED <<fn_input, scraper_vars, app_vars>>

SpecCleanText == InitCleanText /\ [][CallCleanText]_vars

\* C6: the normalizer's output has no run of two or more whitespace characters
\* and no leading or trailing whitespace, for every input.
NoWhitespaceRun(s) == \A k \in 1..(Len(s) - 1) : ~(s[k] \in WS /\ s[k + 1] \in WS)

Trimmed(s) == s = <<>> \/ (s[1] \notin WS /\ s[Len(s)] \notin WS)

C6_WhitespaceNormalized ==
    fn_pc = "done" => NoWhitespaceRun(fn_output) /\ Trimmed(fn_output)

\* C7: the normalizer's output holds none of the literal entities &nbsp; &amp;
\* &lt; &gt;, and empty or null input yields the empty text.
Entities == { <<"&","n","b","s","p",";">>, <<"&","a","m","p",";">>, <<"&","l","t",";">>, <<"&","g","t",";">> }

C7_NoEntityLeft ==
    fn_pc = "done" =>
        /\ \A e \in Entities : ~Contains(fn_output, e)
        /\ (fn_input \in {None, <<>>} => fn_output = <<>>)

(***************************************************************************)
(* Experience Extractor: JobScraper.experience_patterns and                *)
(* JobScraper.extract_experience.                                          *)
(***************************************************************************)

Digits == {"0", "1", "2", "3", "4", "5", "6", "7", "8", "9"}

Upper == <<"A","B","C","D","E","F","G","H","I","J","K","L","M","N","O","P","Q","R","S","T","U","V","W","X","Y","Z">>

Lower == <<"a","b","c","d","e","f","g","h","i","j","k","l","m","n","o","p","q","r","s","t","u","v","w","x","y","z">>

\* str.lower(), character by character.
lower_char(c) ==
    IF \E j \in 1..Len(Upper) : Upper[j] = c
    THEN Lower[CHOOSE j \in 1..Len(Upper) : Upper[j] = c]
    ELSE c

lower(s) == [k \in 1..Len(s) |-> lower_char(s[k])]

\* End of the greedy run  [Set]*  started at k: the first position at or after k
\* whose character is not in Set.
RunEnd(s, k, Set) ==
    Min({j \in k..(Len(s) + 1) : j = Len(s) + 1 \/ s[j] \notin Set})

\* Position after the optional literal  (?:lit)?  tried at k.
OptLit(s, k, lit) == IF StartsAt(s, k, lit) THEN k + Len(lit) ELSE k

\* A group's text, None when the group took part in no match.
Group(s, from, to) == IF to > from THEN SubSeq(s, from, to - 1) ELSE None

NoMatch == [ok |-> FALSE, groups |-> <<>>]

\* The shared middle of patterns 1 and 2, matched at k:
\*   (\d+)[\+\-\s]*(?:to|-)?\s*(\d+)?\s*years?
\* Every quantifier is greedy and what follows each of them cannot start with a
\* character it accepts, so the greedy choice is the match the engine returns.
\* Result: [ok, groups, end] with end the position after  years? .
NumberYears(s, k) ==
    LET d1  == RunEnd(s, k, Digits)
        sep == RunEnd(s, d1, {"+", "-"} \cup WS)
        to  == IF StartsAt(s, sep, <<"t","o">>) THEN sep + 2 ELSE OptLit(s, sep, <<"-">>)
        sp  == RunEnd(s, to, WS)
        d2  == RunEnd(s, sp, Digits)
        yr  == RunEnd(s, d2, WS)
    IN  IF d1 > k /\ StartsAt(s, yr, <<"y","e","a","r">>)
        THEN [ok |-> TRUE,
              groups |-> <<Group(s, k, d1), Group(s, sp, d2)>>,
              end |-> OptLit(s, yr + 4, <<"s">>)]
        ELSE [ok |-> FALSE, groups |-> <<>>, end |-> 0]

\* r'(\d+)[\+\-\s]*(?:to|-)?\s*(\d+)?\s*years?\s*(?:of\s*)?experience'
Pattern1(s, k) ==
    LET m  == NumberYears(s, k)
        sp == RunEnd(s, m.end, WS)
        of == IF StartsAt(s, sp, <<"o","f">>) THEN RunEnd(s, sp + 2, WS) ELSE sp
    IN  IF m.ok /\ StartsAt(s, of, <<"e","x","p","e","r","i","e","n","c","e">>)
        THEN [ok |-> TRUE, groups |-> m.groups]
        ELSE NoMatch

\* r'experience[:\s]*(\d+)[\+\-\s]*(?:to|-)?\s*(\d+)?\s*years?'
Pattern2(s, k) ==
    IF StartsAt(s, k, <<"e","x","p","e","r","i","e","n","c","e">>)
    THEN LET m == NumberYears(s, RunEnd(s, k + 10, {":"} \cup WS))
         IN  IF m.ok THEN [ok |-> TRUE, groups |-> m.groups] ELSE NoMatch
    ELSE NoMatch

\* r'(\d+)[\+\-]\s*years?\s*experience'
Pattern3(s, k) ==
    LET d1 == RunEnd(s, k, Digits)
        yr == RunEnd(s, d1 + 1, WS)
        ex == RunEnd(s, OptLit(s, yr + 4, <<"s">>), WS)
    IN  IF /\ d1 > k
           /\ d1 <= Len(s)
           /\ s[d1] \in {"+", "-"}
           /\ StartsAt(s, yr, <<"y","e","a","r">>)
           /\ StartsAt(s, ex, <<"e","x","p","e","r","i","e","n","c","e">>)
        THEN [ok |-> TRUE, groups |-> <<Group(s, k, d1)>>]
        ELSE NoMatch

\* The tail  \s*(\d+)\s*years?  of patterns 4 and 5, matched at k.
SpaceNumberYears(s, k) ==
    LET sp == RunEnd(s, k, WS)
        d1 == RunEnd(s, sp, Digits)
        yr == RunEnd(s, d1, WS)
    IN  IF d1 > sp /\ StartsAt(s, yr, <<"y","e","a","r">>)
        THEN [ok |-> TRUE, groups |-> <<Group(s, sp, d1)>>]
        ELSE NoMatch

\* r'minimum\s*(\d+)\s*years?'
Pattern4(s, k) ==
    IF StartsAt(s, k, <<"m","i","n","i","m","u","m">>) THEN SpaceNumberYears(s, k + 7) ELSE NoMatch

\* r'at\s*least\s*(\d+)\s*years?'
Pattern5(s, k) ==
    LET le == RunEnd(s, k + 2, WS)
    IN  IF StartsAt(s, k, <<"a","t">>) /\ StartsAt(s, le, <<"l","e","a","s","t">>)
        THEN SpaceNumberYears(s, le + 5)
        ELSE NoMatch

\* len(self.experience_patterns)
NumExperiencePatterns == 5

\* self.experience_patterns[p - 1] matched at position k of s.
experience_patterns(p, s, k) ==
    CASE p = 1 -> Pattern1(s, k)
      [] p = 2 -> Pattern2(s, k)
      [] p = 3 -> Pattern3(s, k)
      [] p = 4 -> Pattern4(s, k)
      [] p = 5 -> Pattern5(s, k)

\* Start positions of the matches re.finditer yields for pattern p, the first
\* of them being the least.
MatchStarts(p, s) == {k \in 1..Len(s) : experience_patterns(p, s, k).ok}

entry_terms == { <<"e","n","t","r","y"," ","l","e","v","e","l">>, <<"f","r","e","s","h","e","r">>, <<"g","r","a","d","u","a","t","e">>, <<"j","u","n","i","o","r">> }

senior_terms == { <<"s","e","n","i","o","r">>, <<"l","e","a","d">>, <<"p","r","i","n","c","i","p","a","l">>, <<"a","r","c","h","i","t","e","c","t">> }

\* The loop over the patterns from pattern p on; the first match returns, since
\* its first group is never empty.
RECURSIVE experience_from(_, _)
experience_from(p, text) ==
    IF p > NumExperiencePatterns
    THEN IF \E term \in entry_terms : Contains(text, term) THEN <<"E","n","t","r","y"," ","L","e","v","e","l">>
         ELSE IF \E term \in senior_terms : Contains(text, term)
              THEN <<"S","e","n","i","o","r"," ","L","e","v","e","l"," ","(","5","+"," ","y","e","a","r","s",")">>
              ELSE <<"N","o","t"," ","s","p","e","c","i","f","i","e","d">>
    ELSE IF MatchStarts(p, text) = {} THEN experience_from(p + 1, text)
         ELSE LET groups == experience_patterns(p, text, Min(MatchStarts(p, text))).groups
              IN  IF Len(groups) >= 2 /\ groups[2] # None
                  THEN groups[1] \o <<"-">> \o groups[2] \o <<" ","y","e","a","r","s">>
                  ELSE groups[1] \o <<"+"," ","y","e","a","r","s">>

\* Faulty variant: the text is not lower-cased before the patterns and keywords are tried.
extract_experience_unlowered(text) == experience_from(1, text)

extract_experience(text) == experience_from(1, lower(text))

(***************************************************************************)
(* Inputs of the experience extractor: concatenations of at most           *)
(* MaxExpPieces phrases.                                                   *)
(***************************************************************************)

MaxExpPieces == 2

ExpPieces ==
    { <<"5","-","7"," ","y","e","a","r","s"," ","e","x","p","e","r","i","e","n","c","e"," ","r","e","q","u","i","r","e","d">>, <<"3","+"," ","y","e","a","r","s"," ","e","x","p","e","r","i","e","n","c","e">>,
      <<"m","i","n","i","m","u","m"," ","3"," ","y","e","a","r","s">>, <<"a","t"," ","l","e","a","s","t"," ","4"," ","y","e","a","r","s">>, <<"E","x","p","e","r","i","e","n","c","e",":"," ","2"," ","t","o"," ","4"," ","y","e","a","r","s">>,
      <<"1","0"," ","y","e","a","r","s"," ","o","f"," ","e","x","p","e","r","i","e","n","c","e">>, <<"5","-","7"," ","y","e","a","r","s">>, <<"8","+"," ","y","e","a","r","s">>,
      <<"L","o","o","k","i","n","g"," ","f","o","r"," ","a"," ","f","r","e","s","h","e","r">>, <<"S","e","n","i","o","r"," ","A","r","c","h","i","t","e","c","t"," ","r","o","l","e">>,
      <<"j","u","n","i","o","r">>, <<"s","e","n","i","o","r">>, <<" ","a","n","d"," ">>, <<" ">>, <<"1","2">> }

ExpInputs == Concats(ExpPieces, MaxExpPieces)

InitExperience ==
    /\ fn_input \in ExpInputs
    /\ fn_output = None
    /\ fn_pc = "ready"
    /\ ScraperUnused
    /\ AppUnused

CallExtractExperience ==
    /\ fn_pc = "ready"
    /\ fn_output' = extract_experience(fn_input)
    /\ fn_pc' = "done"
    /\ UNCHANGED <<fn_input, scraper_vars, app_vars>>

SpecExperience == InitExperience /\ [][CallExtractExperience]_vars

(***************************************************************************)
(* The result forms and the forms of the text, as the claims name them.    *)
(***************************************************************************)

\* "N-M years"
IsRangeResult(o) ==
    LET d1 == RunEnd(o, 1, Digits)
        d2 == RunEnd(o, d1 + 1, Digits)
    IN  /\ d1 > 1
        /\ StartsAt(o, d1, <<"-">>)
        /\ d2 > d1 + 1
        /\ SubSeq(o, d2, Len(o)) = <<" ","y","e","a","r","s">>

\* "N+ years"
IsPlusResult(o) ==
    LET d1 == RunEnd(o, 1, Digits)
    IN  d1 > 1 /\ SubSeq(o, d1, Len(o)) = <<"+"," ","y","e","a","r","s">>

ExperienceResults(o) ==
    \/ IsRangeResult(o)
    \/ IsPlusResult(o)
    \/ o \in { <<"E","n","t","r","y"," ","L","e","v","e","l">>, <<"S","e","n","i","o","r"," ","L","e","v","e","l"," ","(","5","+"," ","y","e","a","r","s",")">>, <<"N","o","t"," ","s","p","e","c","i","f","i","e","d">> }

\* The text holds a range form: some pattern matches somewhere with two numbers.
HasRangeForm(t) ==
    \E p \in 1..NumExperiencePatterns : \E k \in MatchStarts(p, t) :
        LET g == experience_patterns(p, t, k).groups
        IN  Len(g) >= 2 /\ g[2] # None

\* The text holds a single-bound form: some pattern matches somewhere with one number.
HasSingleBoundForm(t) ==
    \E p \in 1..NumExperiencePatterns : \E k \in MatchStarts(p, t) :
        LET g == experience_patterns(p, t, k).groups
        IN  Len(g) < 2 \/ g[2] = None

HasEntryKeyword(t) == \E term \in entry_terms : Contains(t, term)

HasSeniorKeyword(t) == \E term \in senior_terms : Contains(t, term)

\* C8 as claimed: strict priority range > single bound > entry keyword > senior
\* keyword > "Not specified"; a text with a range form anywhere yields a range.
C8_StrictRulePriority ==
    fn_pc = "done" =>
        LET t == lower(fn_input)
        IN  IF HasRangeForm(t) THEN IsRangeResult(fn_output)
            ELSE IF HasSingleBoundForm(t) THEN IsPlusResult(fn_output)
            ELSE IF HasEntryKeyword(t) THEN fn_output = <<"E","n","t","r","y"," ","L","e","v","e","l">>
            ELSE IF HasSeniorKeyword(t) THEN fn_output = <<"S","e","n","i","o","r"," ","L","e","v","e","l"," ","(","5","+"," ","y","e","a","r","s",")">>
            ELSE fn_output = <<"N","o","t"," ","s","p","e","c","i","f","i","e","d">>

\* C8 amended: the first pattern of the list that matches decides, by its
\* leftmost match: two numbers give "N-M years", one gives "N+ years"; only
\* with no numeric match do the keywords decide, entry-level before senior.
C8_FirstMatchWins ==
    fn_pc = "done" =>
        LET t == lower(fn_input)
            matching == {p \in 1..NumExperiencePatterns : MatchStarts(p, t) # {}}
        IN  IF matching # {}
            THEN LET p == Min(matching)
                     g == experience_patterns(p, t, Min(MatchStarts(p, t))).groups
                 IN  IF Len(g) >= 2 /\ g[2] # None
                     THEN fn_output = g[1] \o <<"-">> \o g[2] \o <<" ","y","e","a","r","s">>
                     ELSE fn_output = g[1] \o <<"+"," ","y","e","a","r","s">>
            ELSE IF HasEntryKeyword(t) THEN fn_output = <<"E","n","t","r","y"," ","L","e","v","e","l">>
            ELSE IF HasSeniorKeyword(t) THEN fn_output = <<"S","e","n","i","o","r"," ","L","e","v","e","l"," ","(","5","+"," ","y","e","a","r","s",")">>
            ELSE fn_output = <<"N","o","t"," ","s","p","e","c","i","f","i","e","d">>

\* A text with a single-bound form before a range form has been processed and
\* the single bound was returned.
C8_Witness ==
    /\ fn_pc = "done"
    /\ HasRangeForm(lower(fn_input))
    /\ HasSingleBoundForm(lower(fn_input))
    /\ IsPlusResult(fn_output)

(***************************************************************************)
(* Parsed markup.  A page is its nodes in document order; a node has a     *)
(* tag, one class, the class of an enclosing container (for the descendant *)
(* selectors), a title attribute, its text, and the positions of the list  *)
(* nodes (ul, ol, li) that enclose it.                                     *)
(***************************************************************************)

El(tag, class, within, text) ==
    [tag |-> tag, class |-> class, within |-> within, title |-> <<>>, anc |-> {},
     text |-> text]

\* A node inside lists: a list ("ul", "ol"), a list item ("li") or a run of
\* text ("#text"), enclosed by the nodes at the positions anc.
Node(tag, anc, text) ==
    [tag |-> tag, class |-> <<>>, within |-> <<>>, title |-> <<>>, anc |-> anc,
     text |-> text]

\* The result of a lookup that found no element (Python's None).
NoElem ==
    [tag |-> "None", class |-> <<>>, within |-> <<>>, title |-> <<>>, anc |-> {},
     text |-> <<>>]

\* The fetcher's failure signal (Python's None) in place of a page.
NoSoup == [none |-> TRUE]

\* scrape_job's failure result (Python's None) in place of a record.
NoJob == [none |-> TRUE]

\* The CSS selectors and find() filters of the scrapers, applied to one element.
Selects(sel, e) ==
    CASE sel = "h1[class*=jd-header-title]" ->
            e.tag = "h1" /\ Contains(e.class, <<"j","d","-","h","e","a","d","e","r","-","t","i","t","l","e">>)
      [] sel = ".jd-header-title"      -> e.class = <<"j","d","-","h","e","a","d","e","r","-","t","i","t","l","e">>
      [] sel = "h1.job-title"          -> e.tag = "h1" /\ e.class = <<"j","o","b","-","t","i","t","l","e">>
      [] sel = ".job-header h1"        -> e.tag = "h1" /\ e.within = <<"j","o","b","-","h","e","a","d","e","r">>
      [] sel = "h1"                    -> e.tag = "h1"
      [] sel = ".jd-header-comp-name"  -> e.class = <<"j","d","-","h","e","a","d","e","r","-","c","o","m","p","-","n","a","m","e">>
      [] sel = ".company-name"         -> e.class = <<"c","o","m","p","a","n","y","-","n","a","m","e">>
      [] sel = "[class*=comp-name]"    -> Contains(e.class, <<"c","o","m","p","-","n","a","m","e">>)
      [] sel = ".jd-header .company"   -> e.class = <<"c","o","m","p","a","n","y">> /\ e.within = <<"j","d","-","h","e","a","d","e","r">>
      [] sel = "a[title*=company]"     -> e.tag = "a" /\ Contains(e.title, <<"c","o","m","p","a","n","y">>)
      [] sel = ".jd-header-exp"        -> e.class = <<"j","d","-","h","e","a","d","e","r","-","e","x","p">>
      [] sel = ".experience"           -> e.class = <<"e","x","p","e","r","i","e","n","c","e">>
      [] sel = "[class*=exp]"          -> Contains(e.class, <<"e","x","p">>)
      [] sel = ".job-details .experience" ->
            e.class = <<"e","x","p","e","r","i","e","n","c","e">> /\ e.within = <<"j","o","b","-","d","e","t","a","i","l","s">>
      [] sel = ".jd-header-location"   -> e.class = <<"j","d","-","h","e","a","d","e","r","-","l","o","c","a","t","i","o","n">>
      [] sel = ".location"             -> e.class = <<"l","o","c","a","t","i","o","n">>
      [] sel = "[class*=location]"     -> Contains(e.class, <<"l","o","c","a","t","i","o","n">>)
      [] sel = ".job-location"         -> e.class = <<"j","o","b","-","l","o","c","a","t","i","o","n">>
      [] sel = ".jd-desc"              -> e.class = <<"j","d","-","d","e","s","c">>
      [] sel = ".job-description"      -> e.class = <<"j","o","b","-","d","e","s","c","r","i","p","t","i","o","n">>
      [] sel = ".description"          -> e.class = <<"d","e","s","c","r","i","p","t","i","o","n">>
      [] sel = "[class*=job-desc]"     -> Contains(e.class, <<"j","o","b","-","d","e","s","c">>)
      [] sel = ".jd-desc-content"      -> e.class = <<"j","d","-","d","e","s","c","-","c","o","n","t","e","n","t">>
      [] sel = "h1.top-card-layout__title" ->
            e.tag = "h1" /\ e.class = <<"t","o","p","-","c","a","r","d","-","l","a","y","o","u","t","_","_","t","i","t","l","e">>
      [] sel = "a.topcard__org-name-link" ->
            e.tag = "a" /\ e.class = <<"t","o","p","c","a","r","d","_","_","o","r","g","-","n","a","m","e","-","l","i","n","k">>
      [] sel = "span.topcard__flavor"  -> e.tag = "span" /\ e.class = <<"t","o","p","c","a","r","d","_","_","f","l","a","v","o","r">>
      [] sel = "div.show-more-less-html__markup" ->
            e.tag = "div" /\ e.class = <<"s","h","o","w","-","m","o","r","e","-","l","e","s","s","-","h","t","m","l","_","_","m","a","r","k","u","p">>
      [] sel = "title"                 -> e.tag = "title"
      [] sel = "h2"                    -> e.tag = "h2"
      [] sel = "string~job title|position" ->
            \/ Contains(lower(e.text), <<"j","o","b"," ","t","i","t","l","e">>)
            \/ Contains(lower(e.text), <<"p","o","s","i","t","i","o","n">>)

\* soup.select_one(sel) / soup.find(...): the first element in document order
\* that the selector accepts, NoElem when there is none.
select_one(soup, sel) ==
    LET hits == {k \in 1..Len(soup.elems) : Selects(sel, soup.elems[k])}
    IN  IF hits = {} THEN NoElem ELSE soup.elems[Min(hits)]

\* soup.get_text(): the text of every element, in document order.
RECURSIVE get_text_from(_, _)
get_text_from(soup, k) ==
    IF k > Len(soup.elems) THEN <<>>
    ELSE soup.elems[k].text \o get_text_from(soup, k + 1)

get_text(soup) == get_text_from(soup, 1)

(***************************************************************************)
(* JobData and the per-site scrapers.                                      *)
(***************************************************************************)

\* JobData(url=url) after __post_init__.
JobData(url) ==
    [title |-> <<>>, company |-> <<>>, location |-> <<>>, job_type |-> <<>>,
     experience_required |-> <<>>, description |-> <<>>, responsibilities |-> <<>>,
     required_skills |-> <<>>, preferred_skills |-> <<>>, salary |-> <<>>,
     url |-> url]

\* The loop  for selector in selectors: elem = select_one(selector); if elem: ...; break
\* ends at the first selector that finds an element.
\* Faulty variant: the loop goes on past an element whose text is empty.
FirstSelectedWithText(soup, selectors) ==
    LET hits == {j \in 1..Len(selectors) :
                    /\ select_one(soup, selectors[j]) # NoElem
                    /\ clean_text(select_one(soup, selectors[j]).text) # <<>>}
    IN  IF hits = {} THEN NoElem ELSE select_one(soup, selectors[Min(hits)])

FirstSelected(soup, selectors) ==
    LET hits == {j \in 1..Len(selectors) : select_one(soup, selectors[j]) # NoElem}
    IN  IF hits = {} THEN NoElem ELSE select_one(soup, selectors[Min(hits)])

\* The field such a loop leaves: the default when no selector found an element.
FieldFrom(soup, selectors) ==
    LET elem == FirstSelected(soup, selectors)
    IN  IF elem = NoElem THEN <<>> ELSE clean_text(elem.text)

\* JobScraper.scrape_linkedin
scrape_linkedin(soup, url) ==
    [JobData(url) EXCEPT
        !.title = FieldFrom(soup, <<"h1.top-card-layout__title", "h1">>),
        !.company = FieldFrom(soup, <<"a.topcard__org-name-link", "span.topcard__flavor">>),
        !.description = FieldFrom(soup, <<"div.show-more-less-html__markup">>)]

title_selectors ==
    <<"h1[class*=jd-header-title]", ".jd-header-title", "h1.job-title",
      ".job-header h1", "h1">>

company_selectors ==
    <<".jd-header-comp-name", ".company-name", "[class*=comp-name]",
      ".jd-header .company", "a[title*=company]">>

exp_selectors ==
    <<".jd-header-exp", ".experience", "[class*=exp]", ".job-details .experience">>

location_selectors ==
    <<".jd-header-location", ".location", "[class*=location]", ".job-location">>

desc_selectors ==
    <<".jd-desc", ".job-description", ".description", "[class*=job-desc]",
      ".jd-desc-content">>

exp_keywords == { <<"y","e","a","r">>, <<"e","x","p">>, <<"e","x","p","e","r","i","e","n","c","e">> }

\* The experience loop breaks only at an element whose text holds a keyword.
NaukriExperience(soup) ==
    LET text(j) == clean_text(select_one(soup, exp_selectors[j]).text)
        hits == {j \in 1..Len(exp_selectors) :
                    /\ select_one(soup, exp_selectors[j]) # NoElem
                    /\ \E keyword \in exp_keywords : Contains(lower(text(j)), keyword)}
    IN  IF hits = {} THEN <<>> ELSE text(Min(hits))

\* JobScraper.scrape_naukri, up to its  return job .
scrape_naukri(soup, url) ==
    LET desc == FieldFrom(soup, desc_selectors)
    IN  [JobData(url) EXCEPT
            !.title = FieldFrom(soup, title_selectors),
            !.company = FieldFrom(soup, company_selectors),
            !.experience_required = NaukriExperience(soup),
            !.location = FieldFrom(soup, location_selectors),
            !.description = IF desc = <<>> THEN clean_text(get_text(soup)) ELSE desc]

\* JobScraper.scrape_generic
scrape_generic(soup, url) ==
    [JobData(url) EXCEPT
        !.title = FieldFrom(soup, <<"h1", "title", "h2", "string~job title|position">>),
        !.description = clean_text(get_text(soup))]

(***************************************************************************)
(* Skill and Responsibility Extractors, and the enrichment stage.          *)
(***************************************************************************)

skill_keywords ==
    << <<"p","y","t","h","o","n">>, <<"j","a","v","a">>, <<"j","a","v","a","s","c","r","i","p","t">>, <<"r","e","a","c","t">>, <<"a","n","g","u","l","a","r">>, <<"v","u","e">>, <<"n","o","d","e",".","j","s">>,
       <<"s","q","l">>, <<"m","y","s","q","l">>, <<"p","o","s","t","g","r","e","s","q","l">>, <<"m","o","n","g","o","d","b">>, <<"r","e","d","i","s">>,
       <<"a","w","s">>, <<"a","z","u","r","e">>, <<"g","c","p">>, <<"d","o","c","k","e","r">>, <<"k","u","b","e","r","n","e","t","e","s">>,
       <<"m","a","c","h","i","n","e"," ","l","e","a","r","n","i","n","g">>, <<"a","i">>, <<"d","a","t","a"," ","s","c","i","e","n","c","e">>, <<"t","e","n","s","o","r","f","l","o","w">>, <<"p","y","t","o","r","c","h">>,
       <<"h","t","m","l">>, <<"c","s","s">>, <<"b","o","o","t","s","t","r","a","p">>, <<"g","i","t">>, <<"l","i","n","u","x">>, <<"w","i","n","d","o","w","s">>,
       <<"p","r","o","j","e","c","t"," ","m","a","n","a","g","e","m","e","n","t">>, <<"a","g","i","l","e">>, <<"s","c","r","u","m">>, <<"c","o","m","m","u","n","i","c","a","t","i","o","n">>,
       <<"l","e","a","d","e","r","s","h","i","p">>, <<"t","e","a","m","w","o","r","k">>, <<"p","r","o","b","l","e","m"," ","s","o","l","v","i","n","g">>, <<"c","h","a","r","t","e","r","e","d"," ","a","c","c","o","u","n","t","a","n","t">>,
       <<"a","u","d","i","t">>, <<"a","c","c","o","u","n","t","i","n","g">>, <<"f","i","n","a","n","c","e">>, <<"t","a","x","a","t","i","o","n">>, <<"c","o","m","p","l","i","a","n","c","e">>,
       <<"f","i","n","a","n","c","i","a","l"," ","r","e","p","o","r","t","i","n","g">>, <<"e","x","c","e","l">>, <<"t","a","l","l","y">>, <<"s","a","p">>, <<"q","u","i","c","k","b","o","o","k","s">> >>

\* found_skills of JobScraper.extract_skills: the vocabulary entries that occur
\* in the lower-cased text, in vocabulary order.
found_skills(text) ==
    LET low == lower(text)
        Found(skill) == Contains(low, lower(skill))
    IN  SelectSeq(skill_keywords, Found)

\* BeautifulSoup(text, 'html.parser') as far as the extractors look at it: the
\* lists, list items and text runs of a text whose only tags are those of
\* ListTags.  The parse goes from tag to tag; open holds the positions of the
\* open nodes, innermost last.  An opening tag adds a node inside the open ones
\* (html.parser closes no <li> by itself); a closing tag closes the innermost
\* open node of its name with everything opened inside it, and is dropped when
\* no such node is open.
ListTags == { <<"<","u","l",">">>, <<"<","o","l",">">>, <<"<","/","u","l",">">>, <<"<","/","o","l",">">>, <<"<","l","i",">">>, <<"<","/","l","i",">">> }

TagName(s, at) ==
    IF StartsAt(s, at, <<"<","u","l",">">>) \/ StartsAt(s, at, <<"<","/","u","l",">">>) THEN "ul"
    ELSE IF StartsAt(s, at, <<"<","o","l",">">>) \/ StartsAt(s, at, <<"<","/","o","l",">">>) THEN "ol"
    ELSE "li"

Range(seq) == {seq[k] : k \in 1..Len(seq)}

RECURSIVE html_parser_from(_, _, _, _)
html_parser_from(s, k, open, elems) ==
    LET tags == {j \in k..Len(s) : \E tag \in ListTags : StartsAt(s, j, tag)}
        at == IF tags = {} THEN Len(s) + 1 ELSE Min(tags)
        seen == IF at > k
                THEN Append(elems, Node("#text", Range(open), SubSeq(s, k, at - 1)))
                ELSE elems
    IN  IF tags = {} THEN seen
        ELSE LET name == TagName(s, at)
             IN  IF s[at + 1] # "/"
                 THEN html_parser_from(s, at + 4, Append(open, Len(seen) + 1),
                                       Append(seen, Node(name, Range(open), <<>>)))
                 ELSE LET same == {j \in 1..Len(open) : seen[open[j]].tag = name}
                      IN  html_parser_from(s, at + 5,
                              IF same = {} THEN open ELSE SubSeq(open, 1, Max(same) - 1),
                              seen)

html_parser(text) == [elems |-> html_parser_from(text, 1, <<>>, <<>>)]

responsibility_words ==
    { <<"r","e","s","p","o","n","s","i","b","l","e">>, <<"m","a","n","a","g","e">>, <<"d","e","v","e","l","o","p">>, <<"w","o","r","k">>, <<"c","o","l","l","a","b","o","r","a","t","e">> }

\* Minimum lengths of extract_responsibilities: len(resp_text) > 10, len(resp) > 15.
MinItemLen == 10

MinNumberedLen == 15

\* The cap  responsibilities[:8] .
MaxResponsibilities == 8

\* tag.find_all(names): the positions of the nodes of these names inside the
\* node at position k, in document order (k = 0: the whole document).
find_all(soup, k, names) ==
    LET Inside(j) == soup.elems[j].tag \in names /\ (k = 0 \/ k \in soup.elems[j].anc)
    IN  SelectSeq([j \in 1..Len(soup.elems) |-> j], Inside)

\* item.get_text(): the text of the node and of everything inside it.
RECURSIVE item_text_from(_, _, _)
item_text_from(soup, item, k) ==
    IF k > Len(soup.elems) THEN <<>>
    ELSE (IF k = item \/ item \in soup.elems[k].anc THEN soup.elems[k].text ELSE <<>>)
             \o item_text_from(soup, item, k + 1)

item_text(soup, item) == item_text_from(soup, item, item)

\* The inner loop of extract_responsibilities over the items of one list.
RECURSIVE item_responsibilities(_, _)
item_responsibilities(soup, items) ==
    IF items = <<>> THEN <<>>
    ELSE LET resp_text == clean_text(item_text(soup, Head(items)))
             keep == /\ Len(resp_text) > MinItemLen
                     /\ \E word \in responsibility_words : Contains(lower(resp_text), word)
         IN  (IF keep THEN <<resp_text>> ELSE <<>>) \o item_responsibilities(soup, Tail(items))

\* The outer loop of extract_responsibilities over the lists found.
RECURSIVE list_responsibilities(_, _)
list_responsibilities(soup, lists) ==
    IF lists = <<>> THEN <<>>
    ELSE item_responsibilities(soup, find_all(soup, Head(lists), {"li"}))
             \o list_responsibilities(soup, Tail(lists))

\* End (the position of the closing period) of a match of
\*   r'(\d+[\.\)]\s*[A-Z][^\.]*\.)'   that starts at k, 0 when none starts there.
NumberedEnd(s, k) ==
    LET d1  == RunEnd(s, k, Digits)
        cap == RunEnd(s, d1 + 1, WS)
        dot == Min({j \in (cap + 1)..(Len(s) + 1) : j = Len(s) + 1 \/ s[j] = "."})
    IN  IF /\ d1 > k
           /\ d1 <= Len(s)
           /\ s[d1] \in {".", ")"}
           /\ cap <= Len(s)
           /\ \E j \in 1..Len(Upper) : Upper[j] = s[cap]
           /\ dot <= Len(s)
        THEN dot
        ELSE 0

\* re.findall of the numbered pattern from position k on, each match cleaned
\* and kept when longer than 15 characters; the search resumes after a match.
RECURSIVE numbered_responsibilities(_, _)
numbered_responsibilities(s, k) ==
    LET starts == {j \in k..Len(s) : NumberedEnd(s, j) # 0}
    IN  IF starts = {} THEN <<>>
        ELSE LET end == NumberedEnd(s, Min(starts))
                 resp == clean_text(SubSeq(s, Min(starts), end))
             IN  (IF Len(resp) > MinNumberedLen THEN <<resp>> ELSE <<>>)
                     \o numbered_responsibilities(s, end + 1)

\* JobScraper.extract_responsibilities
extract_responsibilities(soup, text) ==
    LET responsibilities ==
            list_responsibilities(soup, find_all(soup, 0, {"ul", "ol"}))
                \o numbered_responsibilities(text, 1)
    IN  SubSeq(responsibilities, 1,
               IF Len(responsibilities) < MaxResponsibilities
               THEN Len(responsibilities) ELSE MaxResponsibilities)

\* Faulty variant: enrichment keeps the default experience when the description is empty.
process_job_data_skip_empty(job) ==
    LET full_text == job.description
    IN  [job EXCEPT
            !.experience_required =
                IF full_text = <<>> THEN job.experience_required
                ELSE extract_experience(full_text),
            !.required_skills = found_skills(full_text),
            !.responsibilities =
                extract_responsibilities(html_parser(job.description), full_text)]

\* JobScraper.process_job_data
process_job_data(job) ==
    LET full_text == job.description
    IN  [job EXCEPT
            !.experience_required = extract_experience(full_text),
            !.required_skills = found_skills(full_text),
            !.responsibilities =
                extract_responsibilities(html_parser(job.description), full_text)]

(***************************************************************************)
(* Site Detector: JobScraper.detect_job_site.  A URL is its network        *)
(* location and the rest (path and query), as urlparse splits it.          *)
(***************************************************************************)

detect_job_site(url) ==
    LET domain == lower(url.netloc)
    IN  IF Contains(domain, <<"l","i","n","k","e","d","i","n",".","c","o","m">>) THEN "linkedin"
        ELSE IF Contains(domain, <<"i","n","d","e","e","d",".","c","o","m">>) THEN "indeed"
        ELSE IF Contains(domain, <<"g","l","a","s","s","d","o","o","r",".","c","o","m">>) THEN "glassdoor"
        ELSE IF Contains(domain, <<"n","a","u","k","r","i",".","c","o","m">>) THEN "naukri"
        ELSE IF Contains(domain, <<"m","o","n","s","t","e","r",".","c","o","m">>) THEN "monster"
        ELSE "generic"

(***************************************************************************)
(* The world: the URLs given to the scraper and the pages they may serve.  *)
(***************************************************************************)

Url(netloc, rest) == [netloc |-> netloc, rest |-> rest]

LinkedInUrl == Url(<<"w","w","w",".","l","i","n","k","e","d","i","n",".","c","o","m">>, <<"/","j","o","b","s","/","v","i","e","w","/","1","2","3">>)

IndeedUrl == Url(<<"w","w","w",".","i","n","d","e","e","d",".","c","o","m">>, <<"/","v","i","e","w","j","o","b">>)

GlassdoorUrl == Url(<<"w","w","w",".","g","l","a","s","s","d","o","o","r",".","c","o","m">>, <<"/","j","o","b","/","7">>)

NaukriUrl == Url(<<"w","w","w",".","n","a","u","k","r","i",".","c","o","m">>, <<"/","j","o","b","-","l","i","s","t","i","n","g","s","-","1">>)

MonsterUrl == Url(<<"w","w","w",".","m","o","n","s","t","e","r",".","c","o","m">>, <<"/","j","o","b","/","5">>)

AcmeUrl == Url(<<"c","a","r","e","e","r","s",".","a","c","m","e",".","c","o","m">>, <<"/","j","o","b","/","9">>)

Urls == {LinkedInUrl, IndeedUrl, GlassdoorUrl, NaukriUrl, MonsterUrl, AcmeUrl}

\* Longest list given to scrape_multiple_jobs.
MaxUrls == 2

RECURSIVE UrlLists(_)
UrlLists(n) ==
    IF n = 0 THEN {<<>>}
    ELSE UrlLists(n - 1) \cup {Append(us, u) : us \in UrlLists(n - 1), u \in Urls}

\* A Naukri posting with every header element and a description.
NaukriPage ==
    [elems |-> << El("h1", <<"j","d","-","h","e","a","d","e","r","-","t","i","t","l","e">>, <<>>, <<"A","c","c","o","u","n","t","a","n","t">>),
                  El("a", <<"j","d","-","h","e","a","d","e","r","-","c","o","m","p","-","n","a","m","e">>, <<>>, <<"E","x","o","v","a">>),
                  El("span", <<"j","d","-","h","e","a","d","e","r","-","e","x","p">>, <<>>, <<"0","-","5"," ","y","e","a","r","s">>),
                  El("span", <<"j","d","-","h","e","a","d","e","r","-","l","o","c","a","t","i","o","n">>, <<>>, <<"O","m","a","n">>),
                  El("div", <<"j","d","-","d","e","s","c">>, <<>>, <<"S","e","n","i","o","r"," ","a","u","d","i","t"," ","r","o","l","e">>) >>]

\* A LinkedIn posting.
LinkedInPage ==
    [elems |-> << El("h1", <<"t","o","p","-","c","a","r","d","-","l","a","y","o","u","t","_","_","t","i","t","l","e">>, <<>>, <<"E","n","g","i","n","e","e","r">>),
                  El("a", <<"t","o","p","c","a","r","d","_","_","o","r","g","-","n","a","m","e","-","l","i","n","k">>, <<>>, <<"A","c","m","e">>),
                  El("div", <<"s","h","o","w","-","m","o","r","e","-","l","e","s","s","-","h","t","m","l","_","_","m","a","r","k","u","p">>, <<>>,
                     <<"5","-","7"," ","y","e","a","r","s"," ","e","x","p","e","r","i","e","n","c","e"," ","i","n"," ","P","y","t","h","o","n">>) >>]

\* A page without any of the elements the site scrapers look for.
PlainPage ==
    [elems |-> << El("title", <<>>, <<>>, <<"J","o","b">>),
                  El("p", <<>>, <<>>, <<"W","e"," ","n","e","e","d"," ","a"," ","f","r","e","s","h","e","r">>) >>]

\* A page with a list of duties.
ListPage ==
    [elems |-> << El("h2", <<>>, <<>>, <<"N","e","e","d","s"," ","3","+"," ","y","e","a","r","s"," ","e","x","p","e","r","i","e","n","c","e"," ">>),
                  Node("ul", {}, <<>>),
                  Node("li", {2}, <<"D","e","v","e","l","o","p"," ","a","n","d"," ","m","a","n","a","g","e"," ","A","P","I","s">>) >>]

\* An empty document.
EmptyPage == [elems |-> << >>]

Pages == {NaukriPage, LinkedInPage, PlainPage, ListPage, EmptyPage}

\* The pages a URL may serve when its fetch succeeds.
PagesAt(url) ==
    IF url = LinkedInUrl THEN {LinkedInPage, PlainPage, EmptyPage}
    ELSE IF url = NaukriUrl THEN {NaukriPage, ListPage, EmptyPage}
    ELSE IF url = AcmeUrl THEN {PlainPage, ListPage, EmptyPage}
    ELSE IF url = MonsterUrl THEN {ListPage}
    ELSE {PlainPage}

\* What a fetch can end in besides a page.
BrowserFailures == {"TimeoutException", "WebDriverException", "Exception"}

HttpFailures == {"RequestException", "non-HTML", "Exception"}

(***************************************************************************)
(* The Fetcher: JobScraper.__init__, _setup_driver, fetch_page.            *)
(***************************************************************************)

\* How the try block of _setup_driver can go: to its end, or to the except
\* clause from webdriver.Chrome(...) (no browser came up) or from the call
\* driver.implicitly_wait(10) on the browser that came up.
SetupOutcomes == {"ok", "Chrome raised", "implicitly_wait raised"}

\* JobScraper._setup_driver: the fields it leaves, and whether it started a browser.
setup_driver(outcome) ==
    IF outcome = "ok"
    THEN [use_selenium |-> TRUE, driver |-> "live", started |-> TRUE]
    ELSE [use_selenium |-> FALSE, driver |-> "none", started |-> outcome # "Chrome raised"]

\* Faulty variant: the test of fetch_page with the driver test inverted.
fetch_via_inverted(use_sel, drv) ==
    IF use_sel /\ drv # "live" THEN "browser" ELSE "http"

\* The branch fetch_page takes:  if self.use_selenium and self.driver .
fetch_via(use_sel, drv) ==
    IF use_sel /\ drv = "live" THEN "browser" ELSE "http"

Init ==
    /\ fn_input = <<>>
    /\ fn_output = None
    /\ fn_pc = "unused"
    /\ pc = "new"
    /\ use_selenium = FALSE
    /\ driver = "none"
    /\ driver_init = "not_requested"
    /\ call = "none"
    /\ urls = <<>>
    /\ idx = 0
    /\ jobs = <<>>
    /\ cur_soup = NoSoup
    /\ site_type = ""
    /\ cur_job = NoJob
    /\ result = <<>>
    /\ outcomes = <<>>
    /\ trace = <<>>
    /\ AppUnused

\* JobScraper.__init__(use_selenium=requested)
Construct ==
    /\ pc = "new"
    /\ \E requested \in BOOLEAN, outcome \in SetupOutcomes :
        LET set == IF requested THEN setup_driver(outcome)
                   ELSE [use_selenium |-> FALSE, driver |-> "none", started |-> FALSE]
        IN  /\ use_selenium' = set.use_selenium
            /\ driver' = set.driver
            /\ driver_init' = IF ~requested THEN "not_requested"
                              ELSE IF outcome = "ok" THEN "ok" ELSE "failed"
            /\ trace' = IF set.started
                        THEN Append(trace, [op |-> "webdriver.Chrome", i |-> 0])
                        ELSE trace
    /\ pc' = "idle"
    /\ UNCHANGED <<fn_vars, app_vars, call, urls, idx, jobs, cur_soup, site_type, cur_job, result,
                   outcomes>>

\* A call of scrape_job(url) from outside (main, the test script).
StartOne ==
    /\ pc = "idle"
    /\ \E u \in Urls : urls' = <<u>>
    /\ call' = "one"
    /\ idx' = 1
    /\ pc' = "fetch"
    /\ UNCHANGED <<fn_vars, app_vars, use_selenium, driver, driver_init, jobs, cur_soup, site_type,
                   cur_job, result, outcomes, trace>>

\* A call of scrape_multiple_jobs(urls): jobs = [], then the loop.
StartMany ==
    /\ pc = "idle"
    /\ \E us \in UrlLists(MaxUrls) :
        /\ urls' = us
        /\ pc' = IF us = <<>> THEN "returned" ELSE "fetch"
    /\ call' = "many"
    /\ idx' = 1
    /\ jobs' = <<>>
    /\ result' = <<>>
    /\ UNCHANGED <<fn_vars, app_vars, use_selenium, driver, driver_init, cur_soup, site_type, cur_job,
                   outcomes, trace>>

\* How scrape_job's return value reaches its caller.
Return(value) ==
    /\ cur_job' = value
    /\ outcomes' = Append(outcomes, value)
    /\ IF call = "one"
       THEN pc' = "returned" /\ result' = <<value>>
       ELSE pc' = "append" /\ UNCHANGED result

\* scrape_job:  soup = self.fetch_page(url); if not soup: return None
FetchPage ==
    /\ pc = "fetch"
    /\ LET via == fetch_via(use_selenium, driver)
       IN  \/ \E page \in PagesAt(urls[idx]) :
                /\ cur_soup' = page
                /\ trace' = Append(trace, [op |-> "fetch", i |-> idx, via |-> via,
                                           outcome |-> "page"])
                /\ pc' = "detect"
                /\ UNCHANGED <<cur_job, outcomes, result>>
           \/ \E failure \in (IF via = "browser" THEN BrowserFailures ELSE HttpFailures) :
                /\ cur_soup' = NoSoup
                /\ trace' = Append(trace, [op |-> "fetch", i |-> idx, via |-> via,
                                           outcome |-> failure])
                /\ Return(NoJob)
    /\ UNCHANGED <<fn_vars, app_vars, use_selenium, driver, driver_init, call, urls, idx, jobs,
                   site_type>>

\* scrape_job: site_type = self.detect_job_site(url)
DetectSite ==
    /\ pc = "detect"
    /\ site_type' = detect_job_site(urls[idx])
    /\ trace' = Append(trace, [op |-> "detect", i |-> idx, site |-> site_type'])
    /\ pc' = "extract"
    /\ UNCHANGED <<fn_vars, app_vars, use_selenium, driver, driver_init, call, urls, idx, jobs,
                   cur_soup, cur_job, result, outcomes>>

\* The methods JobScraper has: scrape_indeed is not among them, its body
\* follows scrape_naukri's return statement.
ScraperMethods == {"scrape_linkedin", "scrape_naukri", "scrape_generic"}

\* The method scrape_job calls for a site type.
scraper_for(site) ==
    IF site = "linkedin" THEN "scrape_linkedin"
    ELSE IF site = "indeed" THEN "scrape_indeed"
    ELSE IF site = "naukri" THEN "scrape_naukri"
    ELSE "scrape_generic"

\* scrape_job:  job = self.scrape_<site>(soup, url) ; a method the class does not
\* have raises AttributeError, which neither scrape_job nor
\* scrape_multiple_jobs catches.
Extract ==
    /\ pc = "extract"
    /\ LET method == scraper_for(site_type)
           url == urls[idx]
       IN  IF method \in ScraperMethods
           THEN /\ cur_job' = CASE method = "scrape_linkedin" -> scrape_linkedin(cur_soup, url)
                            [] method = "scrape_naukri" -> scrape_naukri(cur_soup, url)
                            [] method = "scrape_generic" -> scrape_generic(cur_soup, url)
                /\ trace' = Append(trace, [op |-> "extract", i |-> idx, method |-> method])
                /\ pc' = "process"
           ELSE /\ trace' = Append(trace, [op |-> "raise", i |-> idx, method |-> method])
                /\ pc' = "raised"
                /\ UNCHANGED cur_job
    /\ UNCHANGED <<fn_vars, app_vars, use_selenium, driver, driver_init, call, urls, idx, jobs,
                   cur_soup, site_type, result, outcomes>>

\* scrape_job:  job = self.process_job_data(job); return job
Process ==
    /\ pc = "process"
    /\ trace' = Append(trace, [op |-> "process", i |-> idx])
    /\ Return(process_job_data(cur_job))
    /\ UNCHANGED <<fn_vars, app_vars, use_selenium, driver, driver_init, call, urls, idx, jobs,
                   cur_soup, site_type>>

\* Faulty variant: the record is put at the front of the list.
append_job_front(list, value) == <<value>> \o list

\* jobs.append(job)
append_job(list, value) == Append(list, value)

\* scrape_multiple_jobs:  if job: jobs.append(job)
AppendJob ==
    /\ pc = "append"
    /\ jobs' = IF cur_job # NoJob THEN append_job(jobs, cur_job) ELSE jobs
    /\ pc' = "sleep"
    /\ UNCHANGED <<fn_vars, app_vars, use_selenium, driver, driver_init, call, urls, idx, cur_soup,
                   site_type, cur_job, result, outcomes, trace>>

\* scrape_multiple_jobs: time.sleep(1), then the next URL or  return jobs .
Sleep ==
    /\ pc = "sleep"
    /\ trace' = Append(trace, [op |-> "sleep", i |-> idx])
    /\ IF idx < Len(urls)
       THEN idx' = idx + 1 /\ pc' = "fetch" /\ UNCHANGED result
       ELSE pc' = "returned" /\ result' = jobs /\ UNCHANGED idx
    /\ UNCHANGED <<fn_vars, app_vars, use_selenium, driver, driver_init, call, urls, jobs, cur_soup,
                   site_type, cur_job, outcomes>>

\* JobScraper.__del__, once the caller is through with the scraper.
Discard ==
    /\ pc \in {"idle", "returned", "raised"}
    /\ driver' = IF driver = "live" THEN "quit" ELSE driver
    /\ trace' = IF driver = "live" THEN Append(trace, [op |-> "driver.quit", i |-> 0])
                ELSE trace
    /\ pc' = "discarded"
    /\ UNCHANGED <<fn_vars, app_vars, use_selenium, driver_init, call, urls, idx, jobs, cur_soup,
                   site_type, cur_job, result, outcomes>>

Next ==
    \/ Construct
    \/ StartOne
    \/ StartMany
    \/ FetchPage
    \/ DetectSite
    \/ Extract
    \/ Process
    \/ AppendJob
    \/ Sleep
    \/ Discard

Spec == Init /\ [][Next]_vars

TypeOK ==
    /\ pc \in {"new", "idle", "fetch", "detect", "extract", "process", "append",
               "sleep", "returned", "raised", "discarded"}
    /\ use_selenium \in BOOLEAN
    /\ driver \in {"none", "live", "quit"}
    /\ call \in {"none", "one", "many"}
    /\ idx \in 0..(MaxUrls + 1)
    /\ Len(jobs) <= Len(urls)

(***************************************************************************)
(* What the histories say about the calls of scrape_job.                   *)
(***************************************************************************)

\* The stages run for the URL at position i, in order, the pause left out.
StagesOf(i) ==
    LET OfUrl(e) == e.i = i /\ e.op # "sleep"
        events == SelectSeq(trace, OfUrl)
    IN  [k \in 1..Len(events) |-> events[k].op]

\* The fetches made for the URL at position i.
FetchesOf(i) ==
    LET IsFetch(e) == e.i = i /\ e.op = "fetch"
    IN  SelectSeq(trace, IsFetch)

\* The scrapers run for the URL at position i.
ExtractsOf(i) ==
    LET IsExtract(e) == e.i = i /\ e.op = "extract"
    IN  SelectSeq(trace, IsExtract)

\* scrape_job has ended for the URL at position i, by a return or by an exception.
Ended(i) == i < idx \/ (i = idx /\ pc \in {"append", "sleep", "returned", "raised", "discarded"})

EndedCalls == {i \in 1..Len(urls) : Ended(i)}

Fetched(i) == FetchesOf(i) # <<>> /\ FetchesOf(i)[1].outcome = "page"

Returned(i) == i <= Len(outcomes)

IsRecord(value) == value # NoJob

\* C1: no failure is fatal to a batch: scrape_multiple_jobs never ends by an
\* exception, and when it returns it has processed every URL of its list.
C1_BatchNeverAborts ==
    call = "many" =>
        /\ pc # "raised"
        /\ (pc = "returned" => Len(outcomes) = Len(urls))

\* C2: the fetch strategy is fixed at construction: after a failed browser
\* initialization every fetch goes by direct HTTP, after a successful one every
\* fetch goes by the browser, and no URL is fetched a second time (no HTTP
\* attempt after a browser failure).
C2_StrategyFixedAtConstruction ==
    /\ \A k \in 1..Len(trace) :
          trace[k].op = "fetch" =>
              trace[k].via = (IF driver_init = "ok" THEN "browser" ELSE "http")
    /\ \A i \in 1..Len(urls) : Len(FetchesOf(i)) <= 1
    /\ (pc \notin {"new", "discarded"} =>
            /\ use_selenium = (driver_init = "ok")
            /\ (driver = "live") = (driver_init = "ok"))

\* A browser fetch failed for one URL and the next URL was fetched by the browser.
C2_Witness ==
    /\ driver_init = "ok"
    /\ \E i \in 1..Len(urls) :
          /\ FetchesOf(i) # <<>>
          /\ FetchesOf(i)[1].outcome \in BrowserFailures
          /\ FetchesOf(i + 1) # <<>>
          /\ FetchesOf(i + 1)[1].via = "browser"

\* C3: scrape_multiple_jobs returns the records of the URLs whose scrape_job
\* returned one, in the order of the list, one record at most per URL.
C3_ResultIsSubsequence ==
    (call = "many" /\ pc = "returned") =>
        /\ Len(outcomes) = Len(urls)
        /\ result = SelectSeq(outcomes, IsRecord)
        /\ \A i \in 1..Len(outcomes) : IsRecord(outcomes[i]) => outcomes[i].url = urls[i]
        /\ Len(result) <= Len(urls)

\* A batch returned two records of different URLs.
C3_Witness ==
    /\ call = "many"
    /\ pc = "returned"
    /\ Len(result) = 2
    /\ result[1].url # result[2].url

\* C4: a failed fetch ends scrape_job at once with no record and no later
\* stage; a successful fetch is followed by site detection, the site's
\* extraction and enrichment, in this order, and a record is returned.
C4_StagesInOrder ==
    \A i \in EndedCalls :
        IF Fetched(i)
        THEN /\ StagesOf(i) = <<"fetch", "detect", "extract", "process">>
             /\ Returned(i)
             /\ IsRecord(outcomes[i])
        ELSE /\ StagesOf(i) = <<"fetch">>
             /\ Returned(i)
             /\ outcomes[i] = NoJob

\* The extraction strategy the claim assigns to a site class.
ClaimedStrategy(site) ==
    CASE site = "linkedin" -> "scrape_linkedin"
      [] site = "indeed" -> "scrape_indeed"
      [] site = "naukri" -> "scrape_naukri"
      [] site \in {"glassdoor", "monster", "generic"} -> "scrape_generic"

\* C5: every fetched page is populated by exactly one strategy, the one of its
\* site class (glassdoor, monster and generic by the generic one), and
\* scrape_job yields a record.
C5_OneStrategyPerSite ==
    \A i \in EndedCalls :
        Fetched(i) =>
            /\ Len(ExtractsOf(i)) = 1
            /\ ExtractsOf(i)[1].method = ClaimedStrategy(detect_job_site(urls[i]))
            /\ Returned(i)
            /\ IsRecord(outcomes[i])

\* C9: enrichment overwrites only what the site scraper left empty: a non-empty
\* experience_required survives it, and title, company, location, description
\* and url are unchanged by it.
C9_EnrichmentKeepsScrapedFields ==
    [][pc = "process" =>
          /\ cur_job'.title = cur_job.title
          /\ cur_job'.company = cur_job.company
          /\ cur_job'.location = cur_job.location
          /\ cur_job'.description = cur_job.description
          /\ cur_job'.url = cur_job.url
          /\ (cur_job.experience_required # <<>> =>
                 cur_job'.experience_required = cur_job.experience_required)]_vars

\* C10: every record scrape_job returns has experience_required in one of the
\* five result forms, never the default empty text.
C10_ExperienceAlwaysSet ==
    \A i \in 1..Len(outcomes) :
        IsRecord(outcomes[i]) => ExperienceResults(outcomes[i].experience_required)

\* A record was returned whose scraper left the description empty.
C10_Witness ==
    \E i \in 1..Len(outcomes) :
        /\ IsRecord(outcomes[i])
        /\ outcomes[i].description = <<>>
        /\ outcomes[i].experience_required = <<"N","o","t"," ","s","p","e","c","i","f","i","e","d">>


(***************************************************************************)
(* export_to_json: the records written as JSON text, and the text read     *)
(* back with json.load.                                                    *)
(***************************************************************************)

\* The values json.dump writes here: str, list, dict (as its items, in order).
JStr(s) == [t |-> "str", v |-> s]

JArr(items) == [t |-> "arr", v |-> items]

JObj(pairs) == [t |-> "obj", v |-> pairs]

RECURSIVE Flatten(_)
Flatten(seqs) == IF seqs = <<>> THEN <<>> ELSE Head(seqs) \o Flatten(Tail(seqs))

\* json's string escapes (ensure_ascii=False: every other character is written as it is).
json_escape_char(c) ==
    IF c = "\"" THEN <<"\\", "\"">>
    ELSE IF c = "\\" THEN <<"\\", "\\">>
    ELSE IF c = "\n" THEN <<"\\", "n">>
    ELSE IF c = "\t" THEN <<"\\", "t">>
    ELSE <<c>>

json_unescape_char(c) ==
    IF c = "n" THEN "\n" ELSE IF c = "t" THEN "\t" ELSE c

json_string(s) ==
    <<"\"">> \o Flatten([k \in 1..Len(s) |-> json_escape_char(s[k])]) \o <<"\"">>

Indent(n) == [k \in 1..n |-> " "]

\* json.dump(value, f, indent=2, ensure_ascii=False) at nesting depth level / 2.
RECURSIVE json_dump(_, _)
json_dump(value, level) ==
    IF value.t = "str" THEN json_string(value.v)
    ELSE IF value.v = <<>> THEN (IF value.t = "arr" THEN <<"[","]">> ELSE <<"{","}">>)
    ELSE LET inner == level + 2
             item(k) == IF value.t = "arr" THEN json_dump(value.v[k], inner)
                        ELSE json_string(value.v[k][1]) \o <<":"," ">>
                                 \o json_dump(value.v[k][2], inner)
             line(k) == <<"\n">> \o Indent(inner) \o item(k)
                            \o (IF k < Len(value.v) THEN <<",">> ELSE <<>>)
         IN  (IF value.t = "arr" THEN <<"[">> ELSE <<"{">>)
                 \o Flatten([k \in 1..Len(value.v) |-> line(k)])
                 \o <<"\n">> \o Indent(level)
                 \o (IF value.t = "arr" THEN <<"]">> ELSE <<"}">>)

\* json.load: whitespace between tokens is skipped.
json_skip_ws(s, k) == Min({j \in k..(Len(s) + 1) : j = Len(s) + 1 \/ s[j] \notin WS})

\* A string after its opening quote; the result is the value and the position after it.
RECURSIVE json_load_string(_, _, _)
json_load_string(s, k, acc) ==
    IF s[k] = "\"" THEN [val |-> JStr(acc), pos |-> k + 1]
    ELSE IF s[k] = "\\" THEN json_load_string(s, k + 2, Append(acc, json_unescape_char(s[k + 1])))
    ELSE json_load_string(s, k + 1, Append(acc, s[k]))

RECURSIVE json_load_value(_, _)
RECURSIVE json_load_items(_, _, _)
RECURSIVE json_load_members(_, _, _)
json_load_value(s, k0) ==
    LET k == json_skip_ws(s, k0)
    IN  IF s[k] = "\"" THEN json_load_string(s, k + 1, <<>>)
        ELSE IF s[k] = "[" THEN json_load_items(s, k + 1, <<>>)
        ELSE json_load_members(s, k + 1, <<>>)

json_load_items(s, k0, acc) ==
    LET k == json_skip_ws(s, k0)
    IN  IF s[k] = "]" THEN [val |-> JArr(acc), pos |-> k + 1]
        ELSE IF s[k] = "," THEN json_load_items(s, k + 1, acc)
        ELSE LET r == json_load_value(s, k)
             IN  json_load_items(s, r.pos, Append(acc, r.val))

json_load_members(s, k0, acc) ==
    LET k == json_skip_ws(s, k0)
    IN  IF s[k] = "}" THEN [val |-> JObj(acc), pos |-> k + 1]
        ELSE IF s[k] = "," THEN json_load_members(s, k + 1, acc)
        ELSE LET key == json_load_string(s, k + 1, <<>>)
                 colon == json_skip_ws(s, key.pos)
                 r == json_load_value(s, colon + 1)
             IN  json_load_members(s, r.pos, Append(acc, <<key.val.v, r.val>>))

json_load(s) == json_load_value(s, 1).val

JStrList(list) == JArr([k \in 1..Len(list) |-> JStr(list[k])])

\* Faulty variant: the location entry is filled from the company.
job_dict_copied_field(job) ==
    JObj(<< <<<<"t","i","t","l","e">>, JStr(job.title)>>,
            <<<<"c","o","m","p","a","n","y">>, JStr(job.company)>>,
            <<<<"l","o","c","a","t","i","o","n">>, JStr(job.company)>>,
            <<<<"e","x","p","e","r","i","e","n","c","e","_","r","e","q","u","i","r","e","d">>, JStr(job.experience_required)>>,
            <<<<"r","e","q","u","i","r","e","d","_","s","k","i","l","l","s">>, JStrList(job.required_skills)>>,
            <<<<"r","e","s","p","o","n","s","i","b","i","l","i","t","i","e","s">>, JStrList(job.responsibilities)>>,
            <<<<"d","e","s","c","r","i","p","t","i","o","n">>, JStr(job.description)>>,
            <<<<"u","r","l">>, JStr(job.url)>> >>)

\* The dict export_to_json appends for one job.
job_dict(job) ==
    JObj(<< <<<<"t","i","t","l","e">>, JStr(job.title)>>,
            <<<<"c","o","m","p","a","n","y">>, JStr(job.company)>>,
            <<<<"l","o","c","a","t","i","o","n">>, JStr(job.location)>>,
            <<<<"e","x","p","e","r","i","e","n","c","e","_","r","e","q","u","i","r","e","d">>, JStr(job.experience_required)>>,
            <<<<"r","e","q","u","i","r","e","d","_","s","k","i","l","l","s">>, JStrList(job.required_skills)>>,
            <<<<"r","e","s","p","o","n","s","i","b","i","l","i","t","i","e","s">>, JStrList(job.responsibilities)>>,
            <<<<"d","e","s","c","r","i","p","t","i","o","n">>, JStr(job.description)>>,
            <<<<"u","r","l">>, JStr(job.url)>> >>)

\* The text export_to_json writes to the file.
export_to_json(job_list) ==
    json_dump(JArr([k \in 1..Len(job_list) |-> job_dict(job_list[k])]), 0)

\* A parsed object read as a Python dict.
HasKey(obj, key) == \E k \in 1..Len(obj.v) : obj.v[k][1] = key

dict_get(obj, key) ==
    obj.v[Max({k \in 1..Len(obj.v) : obj.v[k][1] = key})][2]

MaxExportJobs == 2

\* Records to export: url as a text.
ExportJobs ==
    { JobData(<<"u">>),
      [JobData(<<"h","t","t","p",":","/","/","a",".","b","/","1">>) EXCEPT !.title = <<"D","e","v">>, !.company = <<"A", " ", "\"", "B", "\"">>,
           !.required_skills = << <<"P","y","t","h","o","n">>, <<"A","W","S">> >>,
           !.responsibilities = << <<"W","o","r","k",","," ","d","a","i","l","y">> >>],
      [JobData(<<"h","t","t","p",":","/","/","a",".","b","/","2">>) EXCEPT !.title = <<"Q","A">>, !.location = <<"O","m","a","n">>,
           !.description = <<"a", "\n", "b", "\\", "c", "\t", "[", "]", "{", "}", ":">>,
           !.experience_required = <<"5","-","7"," ","y","e","a","r","s">>],
      [JobData(<<"h","t","t","p",":","/","/","a",".","b","/","3">>) EXCEPT !.title = <<"O","p","s">>, !.job_type = <<"F","u","l","l","-","t","i","m","e">>],
      [JobData(<<"h","t","t","p",":","/","/","a",".","b","/","4">>) EXCEPT !.title = <<"P","M">>, !.salary = <<"5","k">>],
      [JobData(<<"h","t","t","p",":","/","/","a",".","b","/","5">>) EXCEPT !.title = <<"S","R","E">>, !.preferred_skills = << <<"G","o">> >>] }

InitExport ==
    /\ fn_input \in UNION {[1..n -> ExportJobs] : n \in 0..MaxExportJobs}
    /\ fn_output = None
    /\ fn_pc = "ready"
    /\ ScraperUnused
    /\ AppUnused

\* export_to_json(jobs): the file holds the text.
ExportToJson ==
    /\ fn_pc = "ready"
    /\ fn_output' = [file |-> export_to_json(fn_input)]
    /\ fn_pc' = "written"
    /\ UNCHANGED <<fn_input, scraper_vars, app_vars>>

\* The file is read back with json.load.
LoadJson ==
    /\ fn_pc = "written"
    /\ fn_output' = [file |-> fn_output.file, data |-> json_load(fn_output.file)]
    /\ fn_pc' = "loaded"
    /\ UNCHANGED <<fn_input, scraper_vars, app_vars>>

SpecExport == InitExport /\ [][ExportToJson \/ LoadJson]_vars

TextFields == { <<"t","i","t","l","e">>, <<"c","o","m","p","a","n","y">>, <<"l","o","c","a","t","i","o","n">>, <<"e","x","p","e","r","i","e","n","c","e","_","r","e","q","u","i","r","e","d">>, <<"d","e","s","c","r","i","p","t","i","o","n">>, <<"u","r","l">> }

ExportedFields == TextFields \cup { <<"r","e","q","u","i","r","e","d","_","s","k","i","l","l","s">>, <<"r","e","s","p","o","n","s","i","b","i","l","i","t","i","e","s">> }

\* The value of a JobData field by its name, as JSON would hold it.
FieldValue(job, name) ==
    IF name = <<"t","i","t","l","e">> THEN JStr(job.title)
    ELSE IF name = <<"c","o","m","p","a","n","y">> THEN JStr(job.company)
    ELSE IF name = <<"l","o","c","a","t","i","o","n">> THEN JStr(job.location)
    ELSE IF name = <<"j","o","b","_","t","y","p","e">> THEN JStr(job.job_type)
    ELSE IF name = <<"e","x","p","e","r","i","e","n","c","e","_","r","e","q","u","i","r","e","d">> THEN JStr(job.experience_required)
    ELSE IF name = <<"d","e","s","c","r","i","p","t","i","o","n">> THEN JStr(job.description)
    ELSE IF name = <<"s","a","l","a","r","y">> THEN JStr(job.salary)
    ELSE IF name = <<"u","r","l">> THEN JStr(job.url)
    ELSE IF name = <<"r","e","s","p","o","n","s","i","b","i","l","i","t","i","e","s">> THEN JStrList(job.responsibilities)
    ELSE IF name = <<"r","e","q","u","i","r","e","d","_","s","k","i","l","l","s">> THEN JStrList(job.required_skills)
    ELSE JStrList(job.preferred_skills)

AllFields == ExportedFields \cup { <<"j","o","b","_","t","y","p","e">>, <<"s","a","l","a","r","y">>, <<"p","r","e","f","e","r","r","e","d","_","s","k","i","l","l","s">> }

RoundTrip(fields) ==
    /\ fn_output.data.t = "arr"
    /\ Len(fn_output.data.v) = Len(fn_input)
    /\ \A i \in 1..Len(fn_input) : \A name \in fields :
           /\ HasKey(fn_output.data.v[i], name)
           /\ dict_get(fn_output.data.v[i], name) = FieldValue(fn_input[i], name)

\* C11: exporting N records to JSON and re-parsing yields N records, in the same
\* order, equal to the originals in every JobData field, job_type, salary and
\* preferred_skills included.
C11_RoundTripAllFields == fn_pc = "loaded" => RoundTrip(AllFields)

\* C11 as amended: the re-parsed records equal the originals in the eight fields
\* export_to_json writes, lists as lists; job_type, salary and preferred_skills
\* are not in the file.
C11_RoundTripExportedFields ==
    fn_pc = "loaded" =>
        /\ RoundTrip(ExportedFields)
        /\ \A i \in 1..Len(fn_input) : \A name \in AllFields \ ExportedFields :
               ~HasKey(fn_output.data.v[i], name)

C11_Witness ==
    /\ fn_pc = "loaded"
    /\ Len(fn_input) = 2
    /\ fn_input[1].required_skills # <<>>
    /\ fn_input[2].job_type # <<>>
    /\ Contains(fn_input[1].company, <<"\"">>)
    /\ RoundTrip(ExportedFields)

(***************************************************************************)
(* urlparse, as detect_job_site uses it: the URL text split into its       *)
(* network location and the rest.                                          *)
(***************************************************************************)

\* str.isalpha on an ASCII character.
Letters == {Upper[k] : k \in 1..Len(Upper)} \cup {Lower[k] : k \in 1..Len(Lower)}

\* urllib.parse.scheme_chars
SchemeChars == Letters \cup Digits \cup {"+", "-", "."}

\* str.find(c, start): the first position from start holding a character of Set,
\* Len(s) + 1 when there is none.
FindAny(s, start, Set) ==
    Min({k \in start..(Len(s) + 1) : k = Len(s) + 1 \/ s[k] \in Set})

\* The URL after its scheme, if it has one: the text after the first ':' when
\* only scheme characters, the first a letter, stand before it.
AfterScheme(url) ==
    LET i == FindAny(url, 1, {":"})
    IN  IF /\ i > 1
           /\ i <= Len(url)
           /\ url[1] \in Letters
           /\ \A k \in 1..(i - 1) : url[k] \in SchemeChars
        THEN SubSeq(url, i + 1, Len(url))
        ELSE url

\* urlparse raised ValueError("Invalid IPv6 URL").
InvalidUrl == [error |-> "ValueError"]

\* urlparse(url): its netloc and what follows it.
urlparse(url) ==
    LET rest == AfterScheme(url)
    IN  IF StartsAt(rest, 1, <<"/","/">>)
        THEN LET delim == FindAny(rest, 3, {"/", "?", "#"})
                 netloc == SubSeq(rest, 3, delim - 1)
             IN  IF \/ (Contains(netloc, <<"[">>) /\ ~Contains(netloc, <<"]">>))
                    \/ (Contains(netloc, <<"]">>) /\ ~Contains(netloc, <<"[">>))
                 THEN InvalidUrl
                 ELSE [netloc |-> netloc, rest |-> SubSeq(rest, delim, Len(rest))]
        ELSE [netloc |-> <<>>, rest |-> rest]

\* urlparse(url).hostname of a netloc without brackets: what follows the last '@',
\* up to the first ':', in lower case (the empty text stands for None).
hostname(netloc) ==
    LET ats == {k \in 1..Len(netloc) : netloc[k] = "@"}
        hostinfo == IF ats = {} THEN netloc ELSE SubSeq(netloc, Max(ats) + 1, Len(netloc))
        colon == FindAny(hostinfo, 1, {":"})
    IN  lower(SubSeq(hostinfo, 1, colon - 1))

MaxUrlPieces == 4

UrlPieces ==
    { <<"h","t","t","p","s",":","/","/">>, <<"l","i","n","k","e","d","i","n",".","c","o","m">>, <<"I","n","d","e","e","d",".","C","O","M">>, <<"g","l","a","s","s","d","o","o","r",".","c","o","m">>, <<"n","a","u","k","r","i",".","c","o","m">>,
      <<"m","o","n","s","t","e","r",".","c","o","m">>, <<"a","c","m","e",".","i","o">>, <<"@">>, <<"/">>, <<"?">>, <<"[">> }

InitDetect ==
    /\ fn_input \in Concats(UrlPieces, MaxUrlPieces)
    /\ fn_output = None
    /\ fn_pc = "ready"
    /\ ScraperUnused
    /\ AppUnused

\* detect_job_site(url): the site class, or the exception urlparse raised.
CallDetectJobSite ==
    /\ fn_pc = "ready"
    /\ fn_output' = IF urlparse(fn_input) = InvalidUrl THEN "ValueError"
                    ELSE detect_job_site(urlparse(fn_input))
    /\ fn_pc' = "done"
    /\ UNCHANGED <<fn_input, scraper_vars, app_vars>>

SpecDetect == InitDetect /\ [][CallDetectJobSite]_vars

\* The known domains in the order detect_job_site tests them.
KnownDomains ==
    << [domain |-> <<"l","i","n","k","e","d","i","n",".","c","o","m">>, site |-> "linkedin"],
       [domain |-> <<"i","n","d","e","e","d",".","c","o","m">>, site |-> "indeed"],
       [domain |-> <<"g","l","a","s","s","d","o","o","r",".","c","o","m">>, site |-> "glassdoor"],
       [domain |-> <<"n","a","u","k","r","i",".","c","o","m">>, site |-> "naukri"],
       [domain |-> <<"m","o","n","s","t","e","r",".","c","o","m">>, site |-> "monster"] >>

\* The class of the first known domain the text contains, generic when it contains none.
FirstKnown(text) ==
    LET hits == {k \in 1..Len(KnownDomains) : Contains(text, KnownDomains[k].domain)}
    IN  IF hits = {} THEN "generic" ELSE KnownDomains[Min(hits)].site

\* The hostname of a URL text whose brackets do not make urlparse fail.
HostnameOf(url) ==
    LET rest == AfterScheme(url)
    IN  IF StartsAt(rest, 1, <<"/","/">>)
        THEN hostname(SubSeq(rest, 3, FindAny(rest, 3, {"/", "?", "#"}) - 1))
        ELSE <<>>

\* C12: the Site Detector is total and classifies by the URL's hostname only, the
\* first known domain in the order linkedin, indeed, glassdoor, naukri, monster
\* winning and generic exactly when the hostname contains none; a known domain
\* outside the hostname does not affect the result.
C12_ClassifiesByHostname ==
    fn_pc = "done" =>
        /\ fn_output \in {"linkedin", "indeed", "glassdoor", "naukri", "monster", "generic"}
        /\ fn_output = FirstKnown(HostnameOf(fn_input))

(***************************************************************************)
(* The Responsibility Extractor on its own, called as process_job_data     *)
(* calls it: on the parse of a text and on the text.                       *)
(***************************************************************************)

MaxRespPieces == 2

\* Most items of the run of list items in an input.
MaxItems == 9

RespPieces ==
    { <<"<","u","l",">">>, <<"<","o","l",">">>, <<"<","/","u","l",">">>, <<"<","l","i",">","M","i","s","c","<","/","l","i",">">>, <<"<","l","i",">","M","a","n","a","g","e"," ","t","h","e"," ","t","e","a","m","<","/","l","i",">">>,
      <<"<","l","i",">","D","e","v","e","l","o","p"," ","A","P","I","s","<","u","l",">","<","l","i",">","W","o","r","k"," ","w","i","t","h"," ","Q","A"," ","o","k","<","/","l","i",">","<","/","u","l",">","<","/","l","i",">">>,
      <<"<","l","i",">","C","o","l","l","a","b","o","r","a","t","e"," ","w","i","t","h"," ","o","p","s">>, <<"2",")"," ","O","k","."," ">> }

Digit(k) == CHOOSE d \in Digits : \E j \in 0..9 : k % 10 = j /\ d = <<"0", "1", "2", "3", "4", "5", "6", "7", "8", "9">>[j + 1]

\* A run of n qualifying list items, each with its number.
RECURSIVE ItemRun(_)
ItemRun(n) ==
    IF n = 0 THEN <<>>
    ELSE ItemRun(n - 1) \o <<"<","l","i",">","M","a","n","a","g","e"," ","t","a","s","k"," ">> \o <<Digit(n)>> \o <<"<","/","l","i",">">>

RespSuffixes == { <<>>, <<"<","/","u","l",">","1","."," ","B","u","i","l","d"," ","t","h","e"," ","w","h","o","l","e"," ","t","h","i","n","g"," ","n","o","w","."," ">> }

RespInputs ==
    { prefix \o ItemRun(n) \o suffix :
        prefix \in Concats(RespPieces, MaxRespPieces), n \in 0..MaxItems, suffix \in RespSuffixes }

InitResponsibilities ==
    /\ fn_input \in RespInputs
    /\ fn_output = None
    /\ fn_pc = "ready"
    /\ ScraperUnused
    /\ AppUnused

CallExtractResponsibilities ==
    /\ fn_pc = "ready"
    /\ fn_output' = extract_responsibilities(html_parser(fn_input), fn_input)
    /\ fn_pc' = "done"
    /\ UNCHANGED <<fn_input, scraper_vars, app_vars>>

SpecResponsibilities == InitResponsibilities /\ [][CallExtractResponsibilities]_vars

\* The list items of a page: the li nodes inside a ul or ol, in document order.
ListItems(soup) ==
    LET InList(j) == /\ soup.elems[j].tag = "li"
                     /\ \E l \in soup.elems[j].anc : soup.elems[l].tag \in {"ul", "ol"}
    IN  SelectSeq([j \in 1..Len(soup.elems) |-> j], InList)

Qualifies(resp_text) ==
    /\ Len(resp_text) > MinItemLen
    /\ \E word \in responsibility_words : Contains(lower(resp_text), word)

\* The normalized texts of the qualifying list items, in document order.
QualifyingItems(soup) ==
    LET texts == [k \in 1..Len(ListItems(soup)) |-> clean_text(item_text(soup, ListItems(soup)[k]))]
    IN  SelectSeq(texts, Qualifies)

Take(seq, n) == SubSeq(seq, 1, IF Len(seq) < n THEN Len(seq) ELSE n)

\* C13: the Responsibility Extractor returns the qualifying list items in document
\* order, then the qualifying numbered sentences, cut to the first 8: never more
\* than 8 entries, no too-short list item, and no numbered sentence when 8 or
\* more list items qualify.
C13_ItemsThenNumbered ==
    fn_pc = "done" =>
        LET soup == html_parser(fn_input)
            items == QualifyingItems(soup)
        IN  /\ fn_output = Take(items \o numbered_responsibilities(fn_input, 1), MaxResponsibilities)
            /\ Len(fn_output) <= MaxResponsibilities
            /\ \A k \in 1..Len(fn_output) : Len(fn_output[k]) > MinItemLen
            /\ Len(items) >= MaxResponsibilities => fn_output = Take(items, MaxResponsibilities)

(***************************************************************************)
(* The Skill Extractor on its own: extract_skills, with its additional     *)
(* skills, and the enrichment of a record whose description is the text.   *)
(***************************************************************************)

section_keywords == { <<"s","k","i","l","l","s">>, <<"r","e","q","u","i","r","e","m","e","n","t","s">>, <<"q","u","a","l","i","f","i","c","a","t","i","o","n","s">> }

\* re.findall(r'(?:skills|requirements|qualifications)[:\s]*([^\.]*)', text) from
\* position k on: after a keyword and the colons and whitespace behind it, the
\* text up to the next period; the search resumes at that period.
RECURSIVE skill_sections(_, _)
skill_sections(s, k) ==
    LET starts == {j \in k..Len(s) : \E word \in section_keywords : StartsAt(s, j, word)}
    IN  IF starts = {} THEN <<>>
        ELSE LET at == Min(starts)
                 word == CHOOSE w \in section_keywords : StartsAt(s, at, w)
                 from == RunEnd(s, at + Len(word), WS \cup {":"})
                 dot == FindAny(s, from, {"."})
             IN  <<SubSeq(s, from, dot - 1)>> \o skill_sections(s, dot)

\* \w of the regular expressions.
WordChars == Letters \cup Digits \cup {"_"}

\* \b before position p.
WordBoundary(s, p) ==
    (p > 1 /\ p - 1 <= Len(s) /\ s[p - 1] \in WordChars) # (p <= Len(s) /\ s[p] \in WordChars)

\* End (exclusive) of the match of  r'\b[A-Za-z][A-Za-z\.\+\#]{2,}\b'  that starts
\* at k, 0 when none starts there: the longest run that ends at a word boundary.
SkillWordEnd(s, k) ==
    LET run == RunEnd(s, k + 1, Letters \cup {".", "+", "#"})
        ends == {q \in (k + 3)..run : WordBoundary(s, q)}
    IN  IF k <= Len(s) /\ s[k] \in Letters /\ WordBoundary(s, k) /\ ends # {}
        THEN Max(ends) ELSE 0

\* re.findall of the word pattern in a section, from position k on.
RECURSIVE skill_words(_, _)
skill_words(s, k) ==
    LET starts == {j \in k..Len(s) : SkillWordEnd(s, j) # 0}
    IN  IF starts = {} THEN <<>>
        ELSE LET end == SkillWordEnd(s, Min(starts))
             IN  <<SubSeq(s, Min(starts), end - 1)>> \o skill_words(s, end)

\* additional_skills before the set is taken: the words of every section.
RECURSIVE additional_words(_)
additional_words(sections) ==
    IF sections = <<>> THEN <<>>
    ELSE skill_words(Head(sections), 1) \o additional_words(Tail(sections))

\* The first occurrences of a list's elements, in order.
RECURSIVE Distinct(_)
Distinct(seq) ==
    IF seq = <<>> THEN <<>>
    ELSE LET front == Distinct(SubSeq(seq, 1, Len(seq) - 1))
             last == seq[Len(seq)]
         IN  IF last \in Range(front) THEN front ELSE Append(front, last)

Reverse(seq) == [k \in 1..Len(seq) |-> seq[Len(seq) + 1 - k]]

\* Faulty variant: the words are listed without going through a set.
list_set_keeping_repeats(words) == {words, Reverse(words)}

\* list(set(words)): each word once.  Python does not fix the order; these are
\* two of the orders it can produce.
list_set(words) == {Distinct(words), Reverse(Distinct(words))}

\* The cap  [:10]  on additional_skills.
MaxAdditionalSkills == 10

\* The values extract_skills can return for a text.
extract_skills(text) ==
    LET low == lower(text)
        additional_skills == additional_words(skill_sections(low, 1))
    IN  { [required_skills |-> found_skills(text),
           additional_skills |-> Take(listed, MaxAdditionalSkills)] :
          listed \in list_set(additional_skills) }

MaxSkillPieces == 2

\* Most words of the run of words in an input.
MaxWords == 11

SkillPieces ==
    { <<"P","y","t","h","o","n"," ","A","W","S"," ">>, <<"j","a","v","a","s","c","r","i","p","t",","," ">>, <<"S","k","i","l","l","s",":"," ">>, <<"r","e","q","u","i","r","e","m","e","n","t","s">>,
      <<"."," ">>, <<"c","+","+"," ">>, <<"M","y","S","Q","L"," ","s","q","l"," ","m","y","s","q","l"," ">> }

\* A run of n different words.
RECURSIVE WordRun(_)
WordRun(n) ==
    IF n = 0 THEN <<>>
    ELSE WordRun(n - 1) \o <<"w", Lower[n], "x", " ">>

SkillInputs ==
    { prefix \o WordRun(n) : prefix \in Concats(SkillPieces, MaxSkillPieces),
                               n \in {0, 1, MaxWords - 1, MaxWords} }

InitSkills ==
    /\ fn_input \in SkillInputs
    /\ fn_output = None
    /\ fn_pc = "ready"
    /\ ScraperUnused
    /\ AppUnused

CallExtractSkills ==
    /\ fn_pc = "ready"
    /\ \E skills_data \in extract_skills(fn_input) :
           fn_output' = [skills_data |-> skills_data]
    /\ fn_pc' = "extracted"
    /\ UNCHANGED <<fn_input, scraper_vars, app_vars>>

\* process_job_data on a record whose description is the text.
CallProcessJobData ==
    /\ fn_pc = "extracted"
    /\ fn_output' = [skills_data |-> fn_output.skills_data,
                     job |-> process_job_data([JobData(<<"u">>) EXCEPT !.description = fn_input])]
    /\ fn_pc' = "done"
    /\ UNCHANGED <<fn_input, scraper_vars, app_vars>>

SpecSkills == InitSkills /\ [][CallExtractSkills \/ CallProcessJobData]_vars

\* The entry occurs in the text, letter case apart.
OccursIgnoringCase(text, entry) ==
    \E k \in 1..(Len(text) - Len(entry) + 1) :
        \A j \in 1..Len(entry) : lower_char(text[k + j - 1]) = lower_char(entry[j])

NoDuplicates(seq) == \A i, j \in 1..Len(seq) : seq[i] = seq[j] => i = j

\* C14: the required skills are exactly the vocabulary entries that occur in the
\* text, letter case apart, each once; the additional skills have no duplicates
\* and at most 10 entries; a record enriched from the text has required skills
\* that are a duplicate-free subset of the vocabulary.
C14_SkillsFromVocabulary ==
    /\ fn_pc \in {"extracted", "done"} =>
        /\ Range(fn_output.skills_data.required_skills)
               = {entry \in Range(skill_keywords) : OccursIgnoringCase(fn_input, entry)}
        /\ NoDuplicates(fn_output.skills_data.required_skills)
        /\ NoDuplicates(fn_output.skills_data.additional_skills)
        /\ Len(fn_output.skills_data.additional_skills) <= MaxAdditionalSkills
    /\ fn_pc = "done" =>
        /\ Range(fn_output.job.required_skills) \subseteq Range(skill_keywords)
        /\ NoDuplicates(fn_output.job.required_skills)

C14_Witness ==
    /\ fn_pc = "done"
    /\ Len(fn_output.job.required_skills) >= 2
    /\ Len(additional_words(skill_sections(lower(fn_input), 1))) > MaxAdditionalSkills
    /\ Len(fn_output.skills_data.additional_skills) = MaxAdditionalSkills
    /\ ~NoDuplicates(additional_words(skill_sections(lower(fn_input), 1)))

(***************************************************************************)
(* The resume tool (app.py).  Streamlit runs the script from top to bottom *)
(* after every interaction with a widget outside a form and after a form   *)
(* is submitted; the script's variables live for one run, the values of    *)
(* the widgets a run draws are kept for the next run.                      *)
(***************************************************************************)

PastingText == "Pasting Text"

UrlMethod == "URL"

UploadingFile == "Uploading File"

BuildingFromScratch == "Building From Scratch"

\* What scrape_job_description returns: the page's text or one of its messages.
ScrapedTexts == {"page text", "Could not retrieve text from URL.", "Error scraping URL"}

\* extract_text_from_resume(file): text, or nothing when the file cannot be read.
extract_text_from_resume(file) == IF file = "readable" THEN "resume text" ELSE ""

\* One run of the script with the widget values w, started by trigger:
\* "save" (the form's Save Details), "generate" (the Generate button) or
\* "widget" (any other widget).  A button is True only in the run it started.
RunScript(w, trigger, scraped) ==
    IF ~w.api_key
    THEN [trigger |-> trigger, job_text |-> "", resume_content |-> "",
          outcome |-> "stopped", llm_called |-> FALSE]
    ELSE LET pasted == IF w.jd_input_method = PastingText THEN w.jd_text ELSE ""
             form_submit == trigger = "save"
             submit_button == trigger = "generate"
             resume_content ==
                 IF w.resume_input_method = UploadingFile
                 THEN (IF w.uploaded_resume # "none"
                       THEN extract_text_from_resume(w.uploaded_resume) ELSE "")
                 ELSE (IF form_submit THEN "Name: ... Education: ..." ELSE "")
             job_text == IF submit_button /\ w.jd_input_method = UrlMethod /\ w.jd_url # ""
                         THEN scraped ELSE pasted
             outcome == IF ~submit_button THEN "shown"
                        ELSE IF job_text = "" THEN "no job description"
                        ELSE IF resume_content = "" THEN "no resume"
                        ELSE "generated"
         IN  [trigger |-> trigger, job_text |-> job_text, resume_content |-> resume_content,
              outcome |-> outcome, llm_called |-> (outcome = "generated")]

InitApp ==
    /\ widgets \in [api_key : BOOLEAN, jd_input_method : {PastingText},
                    jd_text : {""}, jd_url : {""},
                    resume_input_method : {UploadingFile}, uploaded_resume : {"none"},
                    form : {"blank"}]
    /\ script_run = RunScript(widgets, "widget", "")
    /\ fn_input = <<>>
    /\ fn_output = None
    /\ fn_pc = "unused"
    /\ ScraperUnused

\* The radio "Provide Job Description By": the input of the other method is no
\* longer drawn and its value is dropped.
ChooseJobMethod ==
    /\ \E method \in {PastingText, UrlMethod} :
           /\ method # widgets.jd_input_method
           /\ widgets' = [widgets EXCEPT !.jd_input_method = method, !.jd_text = "", !.jd_url = ""]
    /\ script_run' = RunScript(widgets', "widget", "")
    /\ UNCHANGED <<fn_vars, scraper_vars>>

\* The text area "Paste Job Description Here".
PasteJobText ==
    /\ widgets.jd_input_method = PastingText
    /\ \E text \in {"", "job description"} :
           /\ text # widgets.jd_text
           /\ widgets' = [widgets EXCEPT !.jd_text = text]
    /\ script_run' = RunScript(widgets', "widget", "")
    /\ UNCHANGED <<fn_vars, scraper_vars>>

\* The text input "Enter Job Posting URL".
EnterJobUrl ==
    /\ widgets.jd_input_method = UrlMethod
    /\ \E url \in {"", "https://a.b/job"} :
           /\ url # widgets.jd_url
           /\ widgets' = [widgets EXCEPT !.jd_url = url]
    /\ script_run' = RunScript(widgets', "widget", "")
    /\ UNCHANGED <<fn_vars, scraper_vars>>

\* The radio "Provide Your Resume By".
ChooseResumeMethod ==
    /\ \E method \in {UploadingFile, BuildingFromScratch} :
           /\ method # widgets.resume_input_method
           /\ widgets' = [widgets EXCEPT !.resume_input_method = method,
                                         !.uploaded_resume = "none", !.form = "blank"]
    /\ script_run' = RunScript(widgets', "widget", "")
    /\ UNCHANGED <<fn_vars, scraper_vars>>

\* The file uploader.
UploadResume ==
    /\ widgets.resume_input_method = UploadingFile
    /\ \E file \in {"readable", "unreadable"} :
           /\ file # widgets.uploaded_resume
           /\ widgets' = [widgets EXCEPT !.uploaded_resume = file]
    /\ script_run' = RunScript(widgets', "widget", "")
    /\ UNCHANGED <<fn_vars, scraper_vars>>

\* The user types into the fields of resume_form: nothing runs until the form
\* is submitted.
FillForm ==
    /\ widgets.resume_input_method = BuildingFromScratch
    /\ widgets.form # "typed"
    /\ widgets' = [widgets EXCEPT !.form = "typed"]
    /\ UNCHANGED <<script_run, fn_vars, scraper_vars>>

\* The form's button "Save Details".
SaveDetails ==
    /\ widgets.resume_input_method = BuildingFromScratch
    /\ widgets' = [widgets EXCEPT !.form = IF @ = "blank" THEN "blank" ELSE "saved"]
    /\ script_run' = RunScript(widgets', "save", "")
    /\ UNCHANGED <<fn_vars, scraper_vars>>

\* The button "Generate Tailored Resume & Insights".
Generate ==
    /\ \E scraped \in ScrapedTexts : script_run' = RunScript(widgets, "generate", scraped)
    /\ UNCHANGED <<widgets, fn_vars, scraper_vars>>

NextApp ==
    \/ ChooseJobMethod
    \/ PasteJobText
    \/ EnterJobUrl
    \/ ChooseResumeMethod
    \/ UploadResume
    \/ FillForm
    \/ SaveDetails
    \/ Generate

SpecApp == InitApp /\ [][NextApp]_vars

\* C15: with a job description given and the resume given through the form (filled
\* in and saved with Save Details), pressing Generate gets the LLM called: the
\* saved resume content is there in the run the Generate button starts, as it is
\* for an uploaded document.
C15_SavedFormReachesGenerate ==
    ( /\ script_run.trigger = "generate"
      /\ script_run.outcome # "stopped"
      /\ script_run.job_text # ""
      /\ widgets.resume_input_method = BuildingFromScratch
      /\ widgets.form = "saved" )
    => script_run.llm_called

(***************************************************************************)
(* The browser session of a JobScraper.                                    *)
(***************************************************************************)

\* The positions in the trace where a browser was started, and where one was quit.
BrowserStarts == {k \in 1..Len(trace) : trace[k].op = "webdriver.Chrome"}

BrowserQuits == {k \in 1..Len(trace) : trace[k].op = "driver.quit"}

\* C16: a JobScraper starts at most one browser session, during construction and
\* never during a fetch; every browser fetch uses that session while it is open;
\* discarding the JobScraper closes a session that was started; after a failed
\* initialization there is no session and nothing is closed.
C16_OneSessionClosedOnDiscard ==
    /\ Cardinality(BrowserStarts) <= 1
    /\ BrowserStarts \subseteq {1}
    /\ \A k \in 1..Len(trace) :
          (trace[k].op = "fetch" /\ trace[k].via = "browser") =>
              /\ BrowserStarts # {}
              /\ \A q \in BrowserQuits : q > k
    /\ pc = "discarded" => (BrowserStarts # {} => Cardinality(BrowserQuits) = 1)
    /\ driver_init = "failed" => (BrowserStarts = {} /\ BrowserQuits = {})

(***************************************************************************)
(* The Naukri scraper on its own, on pages put together from the elements  *)
(* its selectors look for.                                                 *)
(***************************************************************************)

\* Most elements of a page given to scrape_naukri.
MaxElems == 3

NaukriElems ==
    { El("h1", <<"j","d","-","h","e","a","d","e","r","-","t","i","t","l","e">>, <<>>, <<>>),
      El("h1", <<"j","o","b","-","t","i","t","l","e">>, <<>>, <<"A","u","d","i","t","o","r">>),
      El("a", <<"j","d","-","h","e","a","d","e","r","-","c","o","m","p","-","n","a","m","e">>, <<>>, <<" ","\n">>),
      El("div", <<"c","o","m","p","a","n","y","-","n","a","m","e">>, <<>>, <<"E","x","o","v","a">>),
      El("span", <<"j","d","-","h","e","a","d","e","r","-","l","o","c","a","t","i","o","n">>, <<>>, <<>>),
      El("span", <<"j","o","b","-","l","o","c","a","t","i","o","n">>, <<>>, <<"O","m","a","n">>),
      El("div", <<"j","d","-","d","e","s","c">>, <<>>, <<>>),
      El("div", <<"j","o","b","-","d","e","s","c","r","i","p","t","i","o","n">>, <<>>, <<"A","u","d","i","t"," ","w","o","r","k">>),
      El("p", <<>>, <<>>, <<"A","p","p","l","y"," ","n","o","w">>) }

NaukriSoups == {[elems |-> es] : es \in UNION {[1..n -> NaukriElems] : n \in 0..MaxElems}}

InitNaukri ==
    /\ fn_input \in NaukriSoups
    /\ fn_output = None
    /\ fn_pc = "ready"
    /\ ScraperUnused
    /\ AppUnused

CallScrapeNaukri ==
    /\ fn_pc = "ready"
    /\ fn_output' = scrape_naukri(fn_input, NaukriUrl)
    /\ fn_pc' = "done"
    /\ UNCHANGED <<fn_input, scraper_vars, app_vars>>

SpecNaukri == InitNaukri /\ [][CallScrapeNaukri]_vars

\* The candidates, by position in the list, that match an element of the page.
Matching(soup, selectors) ==
    {j \in 1..Len(selectors) : \E k \in 1..Len(soup.elems) : Selects(selectors[j], soup.elems[k])}

\* The normalized text of the first element of the page a selector matches.
MatchText(soup, sel) ==
    clean_text(soup.elems[Min({k \in 1..Len(soup.elems) : Selects(sel, soup.elems[k])})].text)

\* The text of the first candidate whose match has text, empty when there is none.
FirstNonEmpty(soup, selectors) ==
    LET with_text == {j \in Matching(soup, selectors) : MatchText(soup, selectors[j]) # <<>>}
    IN  IF with_text = {} THEN <<>> ELSE MatchText(soup, selectors[Min(with_text)])

\* The text of the first candidate that matches, empty when there is none.
FirstMatch(soup, selectors) ==
    IF Matching(soup, selectors) = {} THEN <<>>
    ELSE MatchText(soup, selectors[Min(Matching(soup, selectors))])

\* C17: in the Naukri scraper title, company, location and description take the
\* text of the first candidate, in list order, whose match has non-empty text (an
\* empty match does not stop the search), and description is the whole page's
\* text when no description candidate gave a value.
C17_FirstNonEmptyCandidate ==
    fn_pc = "done" =>
        /\ fn_output.title = FirstNonEmpty(fn_input, title_selectors)
        /\ fn_output.company = FirstNonEmpty(fn_input, company_selectors)
        /\ fn_output.location = FirstNonEmpty(fn_input, location_selectors)
        /\ fn_output.description =
               IF FirstNonEmpty(fn_input, desc_selectors) # <<>>
               THEN FirstNonEmpty(fn_input, desc_selectors)
               ELSE clean_text(get_text(fn_input))

\* C17 as amended: each of these fields takes the text of the first candidate, in
\* list order, that matches an element, empty or not: a match with empty text ends
\* the search and leaves title, company or location empty; description is the
\* whole page's text when it is empty after the search.
C17_FirstMatchingCandidate ==
    fn_pc = "done" =>
        /\ fn_output.title = FirstMatch(fn_input, title_selectors)
        /\ fn_output.company = FirstMatch(fn_input, company_selectors)
        /\ fn_output.location = FirstMatch(fn_input, location_selectors)
        /\ fn_output.description =
               IF FirstMatch(fn_input, desc_selectors) # <<>>
               THEN FirstMatch(fn_input, desc_selectors)
               ELSE clean_text(get_text(fn_input))

C17_Witness ==
    /\ fn_pc = "done"
    /\ 1 \in Matching(fn_input, title_selectors)
    /\ 3 \in Matching(fn_input, title_selectors)
    /\ FirstNonEmpty(fn_input, title_selectors) # <<>>
    /\ fn_output.title = <<>>
    /\ Matching(fn_input, desc_selectors) = {}
    /\ fn_output.description # <<>>

(***************************************************************************)
(* The fetches of a batch.                                                 *)
(***************************************************************************)

\* The positions in the trace of the fetches, and the URL each was for.
FetchPositions == {k \in 1..Len(trace) : trace[k].op = "fetch"}

FetchesOfUrl(i) == {k \in FetchPositions : trace[k].i = i}

\* scrape_multiple_jobs is over: it returned, or an exception left it.
BatchOver == call = "many" /\ pc \in {"returned", "raised", "discarded"}

\* C18: scrape_multiple_jobs fetches every URL of its list exactly once, in list
\* order and one after the other: the fetch of a URL comes after everything done
\* for the URLs before it, no URL is fetched a second time, and there is a pause
\* between any two consecutive fetches, after a failure as after a success.
C18_OneFetchPerUrlInOrder ==
    call = "many" =>
        /\ \A i \in 1..Len(urls) : Cardinality(FetchesOfUrl(i)) <= 1
        /\ \A p, q \in FetchPositions : p < q => trace[p].i < trace[q].i
        /\ \A q \in FetchPositions : \A p \in 1..Len(trace) :
               (trace[p].i >= 1 /\ trace[p].i < trace[q].i) => p < q
        /\ pc = "fetch" => Len(outcomes) = idx - 1
        /\ \A p, q \in FetchPositions :
               p < q => \E r \in (p + 1)..(q - 1) :
                            trace[r].op = "sleep" /\ trace[r].i = trace[p].i
        /\ BatchOver => \A i \in 1..Len(urls) : Cardinality(FetchesOfUrl(i)) = 1

(***************************************************************************)
(* The fetched page and the responsibilities of the record made from it.   *)
(***************************************************************************)

\* scrape_job has its record for the page it fetched.
RecordFromPage == pc \in {"append", "returned"} /\ cur_job # NoJob /\ cur_soup # NoSoup

\* C19: in scrape_job the Responsibility Extractor works on the parsed markup of
\* the fetched page: every qualifying item of the page's lists, up to the cap of
\* 8, is among the responsibilities of the returned record.
C19_PageListItemsInRecord ==
    RecordFromPage =>
        \A item \in Range(Take(QualifyingItems(cur_soup), MaxResponsibilities)) :
            item \in Range(cur_job.responsibilities)
====
